---- MODULE Spec2Model ----
(***************************************************************************)
(* Connection lifecycle and state synchronisation of the dashboard:        *)
(*   - MqttService  (react-web/src/services/mqttService.ts)                *)
(*   - mqttReducer  (contexts/MqttContext.tsx)                             *)
(*   - authReducer / AuthProvider (contexts/AuthContext.tsx)               *)
(*   - AuthService  (services/authService.ts)                              *)
(* JavaScript runs one handler at a time: every action below is one        *)
(* handler (or one stretch of an async function between two awaits).       *)
(***************************************************************************)
EXTENDS Integers, Sequences, FiniteSets, Bags, TLC

\* ------------------------------------------------------------------ bounds
\* connect() invocations in one run (explicit calls and reconnect timers)
MaxConnectCalls == 2
\* disconnect() calls suspended at an await at the same time
MaxDisconnecting == 1
\* 'error' events one transport connection emits
MaxErrors == 2
\* handler executions in one run of the service
MaxSteps == 9
\* observers registered in one list of the service
MaxCallbacks == 3
\* messages delivered to the provider
MaxMessages == 102
\* token refresh calls awaiting their answer
MaxRefreshInFlight == 1
\* the last instant of the clock
MaxTime == 1
\* the latest expiresAt of a session stored by an earlier visit
MaxStoredExpiry == 2
\* calls suspended at a GetObject request at a time
MaxS3Calls == 1
\* poll ticks suspended at their metadata request at a time
MaxTicks == 1
\* initialize() calls suspended at their endpoint request at a time
MaxInitializeCalls == 1
\* lifetimes of a discovery cache entry that pass in one run
MaxHours == 1

\* ------------------------------------------------------- program constants
maxReconnectAttempts == 3
reconnectDelay == 5000

\* ConnectionStatus (types/mqtt)
DISCONNECTED == "disconnected"
CONNECTING == "connecting"
CONNECTED == "connected"
RECONNECTING == "reconnecting"
ERROR == "error"
ConnectionStatus == {DISCONNECTED, CONNECTING, CONNECTED, RECONNECTING, ERROR}

\* the null connection reference; the connections are numbered from 1
NoConnection == 0
\* the null timer handle
NoTimer == "null"

Topics == {"cv/detections"}

VARIABLES
    \* ---- MqttService fields
    connectionStatus,
    isConnecting,
    manualDisconnect,
    reconnectAttempts,
    reconnectTimeout,   \* NoTimer, or the topic the pending reconnect timer closes over
    connection,         \* NoConnection, or the index in conns of the current connection
    currentTopic,
    messageCallbacks,
    statusCallbacks,
    \* ---- suspended async calls and the transport
    credsPending,       \* connect() calls suspended at `await resolveCredentials()`, per topic
    conns,              \* the transport connections created so far, in creation order
    discCalls,          \* disconnect() calls suspended at unsubscribe / at transport disconnect
    subInFlight,        \* subscribe promises not yet settled
    welcomePending,     \* 1 s welcome-message timers not yet fired
    \* ---- observations
    connectCalls,       \* connect() invocations so far
    guardedCall,        \* some connect() call returned at the isConnecting guard while the status was Connecting
    lastPublish,        \* outcome of the latest publishMessage call
    lastFanout,         \* observers invoked by the latest fan-out, and whether it threw to its caller
    steps,              \* handlers the service has run
    \* ---- MqttProvider (React context)
    mqttState,          \* the reducer state of the provider
    delivered,          \* messages handed to handleMessage so far; a message is its number
    providerCalls,      \* where the suspended connect and disconnect calls of the provider stand
    \* ---- AuthProvider (React context) and AuthService
    authCtx,            \* the reducer state of the provider
    currentSession,     \* AuthService.currentSession
    storedSession,      \* the localStorage entry under SESSION_KEY
    refreshTimer,       \* AuthService.refreshTimer: null, or the handle of a timer (pending or fired)
    authCalls,          \* where each suspended async call of the provider and the service stands
    now,                \* Date.now(), in units of 5 minutes
    discoveryCache,     \* the localStorage entry under CACHE_KEY of DiscoveryService
    discoveryCredentials, \* DiscoveryService.credentials: whose credentials it holds
    lastCurrentUser,    \* the call of getCurrentUser whose result initializeAuth awaits:
                        \* what it found, when, its result
    \* ---- S3Provider (React context) and RealS3Service
    s3State,            \* the reducer state of the provider
    aws,                \* what useAuthenticatedAWS returned to the latest render
    envBucket,          \* process.env.REACT_APP_S3_BUCKET_NAME, "" when not set
    pollInterval,       \* the interval of the polling effect: none, or what its callback closes over
    s3Calls,            \* the bag of suspended poll ticks and loadImages calls, each at its request
    lastS3Response,     \* the latest answer of the object store and what the service made of it
    \* ---- MqttService.initialize
    endpoint,           \* MqttService.endpoint
    initializeCalls,    \* initialize() calls suspended at `await discoverIoTEndpoint(region)`
    lastInitialize      \* the latest initialize call: its argument, whether it sent a
                        \* request, how it ended

mqttVars == <<connectionStatus, isConnecting, manualDisconnect, reconnectAttempts,
              reconnectTimeout, connection, currentTopic, credsPending, conns, discCalls,
              subInFlight, welcomePending, connectCalls, guardedCall, lastPublish>>
fanoutVars == <<messageCallbacks, statusCallbacks, lastFanout>>
ctxVars == <<mqttState, delivered, providerCalls>>
authVars == <<authCtx, currentSession, storedSession, refreshTimer, authCalls, now,
              discoveryCache, discoveryCredentials, lastCurrentUser>>
discoveryVars == <<discoveryCache, discoveryCredentials>>
s3Vars == <<s3State, aws, envBucket, pollInterval, s3Calls, lastS3Response>>
initializeVars == <<endpoint, initializeCalls, lastInitialize>>
nonAuthVars == <<mqttVars, fanoutVars, steps, ctxVars, s3Vars, initializeVars>>
nonS3Vars == <<mqttVars, fanoutVars, steps, ctxVars, authVars, initializeVars>>
vars == <<mqttVars, fanoutVars, steps, ctxVars, authVars, s3Vars, initializeVars>>

\* ------------------------------------------------- observers and fan-out
Observers == {"ui", "faulty"}
\* an observer callback that throws when invoked
Throws(o) == o = "faulty"

RECURSIVE ForEachCaught(_, _, _)
ForEachCaught(cbs, i, invoked) ==
    IF i > Len(cbs) THEN [invoked |-> invoked, threw |-> FALSE]
    ELSE ForEachCaught(cbs, i + 1, Append(invoked, cbs[i]))

RECURSIVE ForEachUncaught(_, _, _)
ForEachUncaught(cbs, i, invoked) ==
    IF i > Len(cbs) THEN [invoked |-> invoked, threw |-> FALSE]
    ELSE IF Throws(cbs[i]) THEN [invoked |-> Append(invoked, cbs[i]), threw |-> TRUE]
    ELSE ForEachUncaught(cbs, i + 1, Append(invoked, cbs[i]))

\* forEach with no try/catch around the callback: the first throw ends the loop
NotifyNoCatch(cbs) == ForEachUncaught(cbs, 1, <<>>)

\* callbacks.forEach(cb => { try { cb(x) } catch { log } })
NotifyCallbacks(cbs) == ForEachCaught(cbs, 1, <<>>)

\* ------------------------------------------------------------ MqttService
\* a transport connection as connect() creates it: handlers registered, connect()
\* initiated, the 3 s watchdog armed
NewConnection(topic) ==
    [topic |-> topic,
     promise |-> "pending",   \* connection.connect(): pending | resolved | rejected
     acked |-> FALSE,         \* the 'connect' event was emitted
     interrupted |-> FALSE,   \* 'interrupt' emitted and no 'resume' since
     closed |-> FALSE,        \* the 'disconnect' event was emitted
     errors |-> 0,            \* 'error' events emitted
     watchdog |-> TRUE,       \* the 3 s watchdog timer is pending
     subDelay |-> FALSE,      \* the 500 ms subscribe timer set by the watchdog is pending
     grace |-> FALSE,         \* the 2 s grace timer set by the first disconnect is pending
     subBy |-> 0]             \* subscribe calls issued by this attempt's handlers

\* ---------------------------------------------- MqttProvider reducer (MqttContext)
NoError == "null"
NoMessage == 0

mqttInitialState ==
    [connected |-> FALSE, messages |-> <<>>, error |-> NoError,
     connectionStatus |-> DISCONNECTED, lastMessage |-> NoMessage, messageCount |-> 0]

\* Array.prototype.slice(0, end)
Slice(list, end) == SubSeq(list, 1, IF Len(list) < end THEN Len(list) ELSE end)

\* the reducer whose ADD_MESSAGE keeps every message
mqttReducerKeepAll(st, action) ==
    IF action.type = "ADD_MESSAGE"
    THEN [st EXCEPT !.messages = <<action.payload>> \o @,
                    !.lastMessage = action.payload,
                    !.messageCount = @ + 1]
    ELSE st

mqttReducer(st, action) ==
    CASE action.type = "SET_CONNECTING" ->
            [st EXCEPT !.connected = FALSE, !.connectionStatus = CONNECTING, !.error = NoError]
      [] action.type = "SET_CONNECTED" ->
            [st EXCEPT !.connected = TRUE, !.connectionStatus = CONNECTED, !.error = NoError]
      [] action.type = "SET_DISCONNECTED" ->
            [st EXCEPT !.connected = FALSE, !.connectionStatus = DISCONNECTED]
      [] action.type = "SET_RECONNECTING" ->
            [st EXCEPT !.connected = FALSE, !.connectionStatus = RECONNECTING, !.error = NoError]
      [] action.type = "SET_ERROR" ->
            [st EXCEPT !.connected = FALSE, !.connectionStatus = ERROR, !.error = action.payload]
      [] action.type = "ADD_MESSAGE" ->
            [st EXCEPT !.messages = Slice(<<action.payload>> \o @, 100),
                       !.lastMessage = action.payload,
                       !.messageCount = @ + 1]
      [] action.type = "CLEAR_MESSAGES" ->
            [st EXCEPT !.messages = <<>>, !.lastMessage = NoMessage, !.messageCount = 0]
      [] action.type = "SET_STATUS" ->
            [st EXCEPT !.connectionStatus = action.payload,
                       !.connected = (action.payload = CONNECTED)]
      [] action.type = "RESET_STATE" -> mqttInitialState
      [] OTHER -> st

\* dispatch of the provider's useReducer
mqttDispatch(action) == mqttState' = mqttReducer(mqttState, action)

\* the dispatches of one turn, applied in order
RECURSIVE mqttReduceAll(_, _)
mqttReduceAll(st, actions) ==
    IF actions = <<>> THEN st ELSE mqttReduceAll(mqttReducer(st, Head(actions)), Tail(actions))

\* the observers the MqttProvider registers with the service
HandleMessage == "handleMessage"
HandleStatusChange == "handleStatusChange"

\* how many times cb is registered in the list cbs
Registered(cbs, cb) == Cardinality({i \in DOMAIN cbs : cbs[i] = cb})

\* the reducer state after n dispatches of the same action
RECURSIVE mqttDispatchTimes(_, _, _)
mqttDispatchTimes(st, action, n) ==
    IF n = 0 THEN st ELSE mqttDispatchTimes(mqttReducer(st, action), action, n - 1)

\* no connect or disconnect call of the provider is suspended
NoProviderCalls == [connect |-> "idle", topic |-> "", disconnect |-> "idle"]

\* notifyStatusCallbacks(status) as the provider sees it: every registered
\* handleStatusChange dispatches SET_STATUS
statusObserved(st, cbs, status) ==
    mqttDispatchTimes(st, [type |-> "SET_STATUS", payload |-> status],
                      Registered(cbs, HandleStatusChange))

\* notifyMessageCallbacks(message) as the provider sees it: every registered
\* handleMessage dispatches ADD_MESSAGE
messageObserved(st, cbs, message) ==
    mqttDispatchTimes(st, [type |-> "ADD_MESSAGE", payload |-> message],
                      Registered(cbs, HandleMessage))


ConnIds == 1..Len(conns)

\* one handler of the service runs; it registers and removes no observer
ServiceStep ==
    /\ steps < MaxSteps
    /\ steps' = steps + 1
    /\ UNCHANGED <<messageCallbacks, statusCallbacks, delivered, providerCalls, authVars,
                   s3Vars, initializeVars>>

\* setConnectionStatus: store the status, then notify the status observers cbs; the
\* provider's observer dispatches on the reducer state st
setConnectionStatusFor(status, st, cbs) ==
    /\ connectionStatus' = status
    /\ lastFanout' = NotifyCallbacks(cbs)
    /\ mqttState' = statusObserved(st, cbs, status)

\* setConnectionStatus in a handler that neither dispatched nor registered before it
setConnectionStatus(status) == setConnectionStatusFor(status, mqttState, statusCallbacks)

\* error values the transport reports: code, name and message as word sequences
TransportErrors ==
    { [code |-> <<"ECONNREFUSED">>, name |-> <<"Error">>, message |-> <<"connect", "failed">>],
      [code |-> <<>>, name |-> <<"AccessDeniedException">>, message |-> <<>>],
      [code |-> <<>>, name |-> <<"Error">>, message |-> <<"getaddrinfo", "ENOTFOUND", "host">>],
      [code |-> <<"ETIMEDOUT">>, name |-> <<"UNAUTHORIZED">>, message |-> <<"timed", "out">>],
      [code |-> <<>>, name |-> <<>>, message |-> <<"socket", "hang", "up">>] }

nonRetryableErrors ==
    {"ENOTFOUND", "ECONNREFUSED", "UNAUTHORIZED", "FORBIDDEN", "InvalidSignatureException",
     "SignatureDoesNotMatchException", "TokenRefreshRequiredException", "AccessDeniedException"}

\* String.includes on word sequences
Includes(text, word) == \E i \in 1..Len(text) : text[i] = word

\* treats every error as retryable
isRetryableAlways(error) == TRUE

isRetryableError(error) ==
    LET errorCode == IF error.code # <<>> THEN error.code ELSE error.name
        errorMessage == error.message
    IN ~ \E code \in nonRetryableErrors :
            Includes(errorCode, code) \/ Includes(errorMessage, code)

\* scheduleReconnect(topic): the status, attempt counter and timer it leaves
scheduleReconnect(topic) ==
    IF reconnectAttempts >= maxReconnectAttempts
    THEN [status |-> ERROR, attempts |-> reconnectAttempts, timeout |-> reconnectTimeout]
    ELSE [status |-> RECONNECTING, attempts |-> reconnectAttempts + 1, timeout |-> topic]

\* delay of the timer scheduleReconnect sets for the n-th attempt
ReconnectDelay(n) == reconnectDelay * (2 ^ (n - 1))

\* subscribeToTopic called from a handler of attempt c: with no current connection it
\* only logs, otherwise it calls subscribe on the current connection
subscribeToTopic(cs, c) ==
    IF connection = NoConnection THEN cs ELSE [cs EXCEPT ![c].subBy = @ + 1]
SubscribeIssued == IF connection = NoConnection THEN 0 ELSE 1

\* connect(topic) up to `await this.resolveCredentials()`; timeout is reconnectTimeout
\* as the call finds it, st the provider's reducer state and cbs the status observers
\* as the caller left them
connectStarts(topic, timeout, st, cbs) ==
    /\ connectCalls < MaxConnectCalls
    /\ connectCalls' = connectCalls + 1
    /\ IF isConnecting \/ connectionStatus = CONNECTED
       THEN /\ guardedCall' = (guardedCall \/ (isConnecting /\ connectionStatus = CONNECTING))
            /\ reconnectTimeout' = timeout
            /\ mqttState' = st
            /\ UNCHANGED <<connectionStatus, lastFanout, isConnecting, manualDisconnect,
                           currentTopic, credsPending>>
       ELSE /\ reconnectTimeout' = NoTimer
            /\ isConnecting' = TRUE
            /\ manualDisconnect' = FALSE
            /\ setConnectionStatusFor(CONNECTING, st, cbs)
            /\ currentTopic' = topic
            /\ credsPending' = [credsPending EXCEPT ![topic] = @ + 1]
            /\ UNCHANGED guardedCall
    /\ UNCHANGED <<reconnectAttempts, connection, conns, discCalls, subInFlight,
                   welcomePending, lastPublish>>

\* connect(topic) called by a reconnect timer or by a caller other than the provider
connectCall(topic, timeout) ==
    /\ connectStarts(topic, timeout, mqttState, statusCallbacks)
    /\ ServiceStep

\* an explicit connect(topic) call
Connect(topic) == connectCall(topic, reconnectTimeout)

\* the reconnect timer fires: reconnectTimeout = null; this.connect(topic)
ReconnectTimerFires ==
    /\ reconnectTimeout # NoTimer
    /\ connectCall(reconnectTimeout, NoTimer)

\* connect(topic) after the await: credentials resolved, connection created, handlers
\* registered, connect() initiated, watchdog armed; or the catch block
connectResumes(topic, ok, caught) ==
    /\ credsPending[topic] > 0
    /\ credsPending' = [credsPending EXCEPT ![topic] = @ - 1]
    /\ IF ok
       THEN /\ conns' = Append(conns, NewConnection(topic))
            /\ connection' = Len(conns) + 1
            /\ UNCHANGED <<connectionStatus, lastFanout, mqttState, isConnecting>>
       ELSE /\ isConnecting' = FALSE
            /\ connectionStatus' = ERROR
            /\ lastFanout' = NotifyCallbacks(statusCallbacks)
            \* the error is thrown on to the caller, whose catch block runs next
            /\ mqttState' = mqttReduceAll(statusObserved(mqttState, statusCallbacks, ERROR),
                                          caught)
            /\ UNCHANGED <<conns, connection>>
    /\ UNCHANGED <<manualDisconnect, reconnectAttempts, reconnectTimeout, currentTopic,
                   discCalls, subInFlight, welcomePending, connectCalls, guardedCall,
                   lastPublish>>

\* a connect(topic) nobody awaits (the reconnect timer's, a direct caller's) resumes
ConnectResume(topic, ok) ==
    /\ connectResumes(topic, ok, <<>>)
    /\ ServiceStep

\* connection.on('connect')
OnConnect(c) ==
    /\ ~conns[c].acked /\ ~conns[c].closed /\ conns[c].promise # "rejected"
    /\ setConnectionStatus(CONNECTED)
    /\ reconnectAttempts' = 0
    /\ isConnecting' = FALSE
    /\ conns' = subscribeToTopic([conns EXCEPT ![c].acked = TRUE], c)
    /\ subInFlight' = subInFlight + SubscribeIssued
    /\ UNCHANGED <<manualDisconnect, reconnectTimeout, connection, currentTopic, credsPending,
                   discCalls, welcomePending, connectCalls, guardedCall, lastPublish>>
    /\ ServiceStep

\* connection.on('interrupt')
OnInterrupt(c) ==
    /\ (conns[c].acked \/ conns[c].promise = "resolved")
    /\ ~conns[c].closed /\ ~conns[c].interrupted
    /\ setConnectionStatus(DISCONNECTED)
    /\ conns' = [conns EXCEPT ![c].interrupted = TRUE]
    /\ UNCHANGED <<isConnecting, manualDisconnect, reconnectAttempts, reconnectTimeout,
                   connection, currentTopic, credsPending, discCalls, subInFlight,
                   welcomePending, connectCalls, guardedCall, lastPublish>>
    /\ ServiceStep

\* connection.on('resume')
OnResume(c) ==
    /\ conns[c].interrupted /\ ~conns[c].closed
    /\ setConnectionStatus(CONNECTED)
    /\ conns' = [conns EXCEPT ![c].interrupted = FALSE]
    /\ UNCHANGED <<isConnecting, manualDisconnect, reconnectAttempts, reconnectTimeout,
                   connection, currentTopic, credsPending, discCalls, subInFlight,
                   welcomePending, connectCalls, guardedCall, lastPublish>>
    /\ ServiceStep

\* connection.on('disconnect')
OnDisconnect(c) ==
    /\ ~conns[c].closed
    /\ isConnecting' = FALSE
    /\ IF manualDisconnect
       THEN /\ conns' = [conns EXCEPT ![c].closed = TRUE, ![c].interrupted = FALSE]
            /\ UNCHANGED <<connectionStatus, lastFanout, mqttState, reconnectAttempts, reconnectTimeout>>
       ELSE IF reconnectAttempts = 0
       THEN /\ setConnectionStatus(DISCONNECTED)
            /\ conns' = [conns EXCEPT ![c].closed = TRUE, ![c].interrupted = FALSE,
                                      ![c].grace = TRUE]
            /\ UNCHANGED <<reconnectAttempts, reconnectTimeout>>
       ELSE LET r == scheduleReconnect(conns[c].topic) IN
            /\ setConnectionStatus(r.status)
            /\ reconnectAttempts' = r.attempts
            /\ reconnectTimeout' = r.timeout
            /\ conns' = [conns EXCEPT ![c].closed = TRUE, ![c].interrupted = FALSE]
    /\ UNCHANGED <<manualDisconnect, connection, currentTopic, credsPending, discCalls,
                   subInFlight, welcomePending, connectCalls, guardedCall, lastPublish>>
    /\ ServiceStep

\* the 2 s grace timer set by the first disconnect fires
GraceTimerFires(c) ==
    /\ conns[c].grace
    /\ conns' = [conns EXCEPT ![c].grace = FALSE]
    /\ IF ~manualDisconnect /\ connectionStatus = DISCONNECTED
       THEN LET r == scheduleReconnect(conns[c].topic) IN
            /\ setConnectionStatus(r.status)
            /\ reconnectAttempts' = r.attempts
            /\ reconnectTimeout' = r.timeout
       ELSE UNCHANGED <<connectionStatus, lastFanout, mqttState, reconnectAttempts, reconnectTimeout>>
    /\ UNCHANGED <<isConnecting, manualDisconnect, connection, currentTopic, credsPending,
                   discCalls, subInFlight, welcomePending, connectCalls, guardedCall,
                   lastPublish>>
    /\ ServiceStep

\* connection.on('error')
OnError(c, error) ==
    /\ ~conns[c].closed /\ conns[c].errors < MaxErrors
    /\ conns' = [conns EXCEPT ![c].errors = @ + 1]
    /\ isConnecting' = FALSE
    /\ IF ~manualDisconnect /\ isRetryableError(error)
       THEN LET r == scheduleReconnect(conns[c].topic) IN
            /\ setConnectionStatus(r.status)
            /\ reconnectAttempts' = r.attempts
            /\ reconnectTimeout' = r.timeout
       ELSE /\ setConnectionStatus(ERROR)
            /\ UNCHANGED <<reconnectAttempts, reconnectTimeout>>
    /\ UNCHANGED <<manualDisconnect, connection, currentTopic, credsPending, discCalls,
                   subInFlight, welcomePending, connectCalls, guardedCall, lastPublish>>
    /\ ServiceStep

\* connection.connect().then(...)
ConnectResolved(c) ==
    /\ conns[c].promise = "pending" /\ ~conns[c].closed
    /\ IF connectionStatus # CONNECTED
       THEN /\ setConnectionStatus(CONNECTED)
            /\ reconnectAttempts' = 0
            /\ isConnecting' = FALSE
            /\ conns' = subscribeToTopic([conns EXCEPT ![c].promise = "resolved"], c)
            /\ subInFlight' = subInFlight + SubscribeIssued
       ELSE /\ conns' = [conns EXCEPT ![c].promise = "resolved"]
            /\ UNCHANGED <<connectionStatus, lastFanout, mqttState, reconnectAttempts, isConnecting,
                           subInFlight>>
    /\ UNCHANGED <<manualDisconnect, reconnectTimeout, connection, currentTopic, credsPending,
                   discCalls, welcomePending, connectCalls, guardedCall, lastPublish>>
    /\ ServiceStep

\* connection.connect().catch(...)
ConnectRejected(c) ==
    /\ conns[c].promise = "pending" /\ ~conns[c].acked
    /\ conns' = [conns EXCEPT ![c].promise = "rejected"]
    /\ isConnecting' = FALSE
    /\ setConnectionStatus(ERROR)
    /\ UNCHANGED <<manualDisconnect, reconnectAttempts, reconnectTimeout, connection,
                   currentTopic, credsPending, discCalls, subInFlight, welcomePending,
                   connectCalls, guardedCall, lastPublish>>
    /\ ServiceStep

\* the 3 s watchdog with no status test: the 500 ms subscribe timer is armed whatever
\* the status is, and the status is left as it is unless it is Connecting
WatchdogFiresAlwaysSubscribes(c) ==
    /\ conns[c].watchdog
    /\ conns' = [conns EXCEPT ![c].watchdog = FALSE, ![c].subDelay = TRUE]
    /\ IF connectionStatus = CONNECTING
       THEN /\ setConnectionStatus(CONNECTED)
            /\ reconnectAttempts' = 0
            /\ isConnecting' = FALSE
       ELSE UNCHANGED <<connectionStatus, lastFanout, mqttState, reconnectAttempts, isConnecting>>
    /\ UNCHANGED <<manualDisconnect, reconnectTimeout, connection, currentTopic, credsPending,
                   discCalls, subInFlight, welcomePending, connectCalls, guardedCall,
                   lastPublish>>
    /\ ServiceStep

\* the 3 s watchdog fires
WatchdogFires(c) ==
    /\ conns[c].watchdog
    /\ IF connectionStatus = CONNECTING
       THEN /\ setConnectionStatus(CONNECTED)
            /\ reconnectAttempts' = 0
            /\ isConnecting' = FALSE
            /\ conns' = [conns EXCEPT ![c].watchdog = FALSE, ![c].subDelay = TRUE]
       ELSE /\ conns' = [conns EXCEPT ![c].watchdog = FALSE]
            /\ UNCHANGED <<connectionStatus, lastFanout, mqttState, reconnectAttempts, isConnecting>>
    /\ UNCHANGED <<manualDisconnect, reconnectTimeout, connection, currentTopic, credsPending,
                   discCalls, subInFlight, welcomePending, connectCalls, guardedCall,
                   lastPublish>>
    /\ ServiceStep

\* the 500 ms timer set by the watchdog fires: subscribeToTopic(topic)
SubscribeDelayFires(c) ==
    /\ conns[c].subDelay
    /\ conns' = subscribeToTopic([conns EXCEPT ![c].subDelay = FALSE], c)
    /\ subInFlight' = subInFlight + SubscribeIssued
    /\ UNCHANGED <<connectionStatus, lastFanout, mqttState, isConnecting, manualDisconnect,
                   reconnectAttempts, reconnectTimeout, connection, currentTopic,
                   credsPending, discCalls, welcomePending, connectCalls, guardedCall,
                   lastPublish>>
    /\ ServiceStep

\* subscribeToTopic after `await this.connection.subscribe(...)`: the welcome timer is
\* set, or the catch block sets the status Error
SubscribeSettles(ok) ==
    /\ subInFlight > 0
    /\ subInFlight' = subInFlight - 1
    /\ IF ok
       THEN /\ welcomePending' = welcomePending + 1
            /\ UNCHANGED <<connectionStatus, lastFanout, mqttState>>
       ELSE /\ setConnectionStatus(ERROR)
            /\ UNCHANGED welcomePending
    /\ UNCHANGED <<isConnecting, manualDisconnect, reconnectAttempts, reconnectTimeout,
                   connection, currentTopic, credsPending, conns, discCalls, connectCalls,
                   guardedCall, lastPublish>>
    /\ ServiceStep

\* the message simulateWelcomeMessage builds; the received ones are numbered from 1
WelcomeMessage == MaxMessages + 1

\* the 1 s welcome timer fires: simulateWelcomeMessage -> notifyMessageCallbacks
WelcomeTimerFires ==
    /\ welcomePending > 0
    /\ welcomePending' = welcomePending - 1
    /\ lastFanout' = NotifyCallbacks(messageCallbacks)
    /\ mqttState' = messageObserved(mqttState, messageCallbacks, WelcomeMessage)
    /\ UNCHANGED <<connectionStatus, isConnecting, manualDisconnect, reconnectAttempts,
                   reconnectTimeout, connection, currentTopic, credsPending, conns,
                   discCalls, subInFlight, connectCalls, guardedCall, lastPublish>>
    /\ ServiceStep

\* disconnect() that leaves a pending reconnect timer in place
DisconnectNoCancel ==
    /\ discCalls.unsub + discCalls.disc < MaxDisconnecting
    /\ manualDisconnect' = TRUE
    /\ reconnectAttempts' = 0
    /\ IF connection # NoConnection
       THEN /\ discCalls' = IF currentTopic # ""
                            THEN [discCalls EXCEPT !.unsub = @ + 1]
                            ELSE [discCalls EXCEPT !.disc = @ + 1]
            /\ UNCHANGED <<connectionStatus, lastFanout, mqttState>>
       ELSE /\ setConnectionStatus(DISCONNECTED)
            /\ UNCHANGED discCalls
    /\ UNCHANGED <<isConnecting, reconnectTimeout, connection, currentTopic, credsPending,
                   conns, subInFlight, welcomePending, connectCalls, guardedCall, lastPublish>>
    /\ ServiceStep

\* disconnect() up to its first await (or to its end when there is no connection); st
\* is the provider's reducer state and cbs the status observers as the caller left them
disconnectStarts(st, cbs) ==
    /\ discCalls.unsub + discCalls.disc < MaxDisconnecting
    /\ manualDisconnect' = TRUE
    /\ reconnectTimeout' = NoTimer
    /\ reconnectAttempts' = 0
    /\ IF connection # NoConnection
       THEN /\ discCalls' = IF currentTopic # ""
                            THEN [discCalls EXCEPT !.unsub = @ + 1]
                            ELSE [discCalls EXCEPT !.disc = @ + 1]
            /\ mqttState' = st
            /\ UNCHANGED <<connectionStatus, lastFanout>>
       ELSE /\ setConnectionStatusFor(DISCONNECTED, st, cbs)
            /\ UNCHANGED discCalls
    /\ UNCHANGED <<isConnecting, connection, currentTopic, credsPending, conns, subInFlight,
                   welcomePending, connectCalls, guardedCall, lastPublish>>

\* disconnect() called by a caller other than the provider
Disconnect ==
    /\ disconnectStarts(mqttState, statusCallbacks)
    /\ ServiceStep

\* disconnect() after `await this.connection.unsubscribe(...)`: on success it calls
\* this.connection.disconnect() (a TypeError when the reference is null by now); a
\* throw goes to the catch block and on to setConnectionStatus(DISCONNECTED)
UnsubscribeSettles(ok) ==
    /\ discCalls.unsub > 0
    /\ IF ok /\ connection # NoConnection
       THEN /\ discCalls' = [discCalls EXCEPT !.unsub = @ - 1, !.disc = @ + 1]
            /\ UNCHANGED <<connectionStatus, lastFanout, mqttState>>
       ELSE /\ discCalls' = [discCalls EXCEPT !.unsub = @ - 1]
            /\ setConnectionStatus(DISCONNECTED)
    /\ UNCHANGED <<isConnecting, manualDisconnect, reconnectAttempts, reconnectTimeout,
                   connection, currentTopic, credsPending, conns, subInFlight, welcomePending,
                   connectCalls, guardedCall, lastPublish>>
    /\ ServiceStep

\* disconnect() whose catch block rethrows instead of falling through
DisconnectSettlesRethrow(ok) ==
    /\ discCalls.disc > 0
    /\ discCalls' = [discCalls EXCEPT !.disc = @ - 1]
    /\ IF ok
       THEN /\ connection' = NoConnection
            /\ setConnectionStatus(DISCONNECTED)
       ELSE UNCHANGED <<connection, connectionStatus, lastFanout, mqttState>>
    /\ UNCHANGED <<isConnecting, manualDisconnect, reconnectAttempts, reconnectTimeout,
                   currentTopic, credsPending, conns, subInFlight, welcomePending,
                   connectCalls, guardedCall, lastPublish>>
    /\ ServiceStep

\* disconnect() after `await this.connection.disconnect()`: the references are released
\* on success; either way setConnectionStatus(DISCONNECTED) ends the call
DisconnectSettles(ok) ==
    /\ discCalls.disc > 0
    /\ discCalls' = [discCalls EXCEPT !.disc = @ - 1]
    /\ connection' = IF ok THEN NoConnection ELSE connection
    /\ setConnectionStatus(DISCONNECTED)
    /\ UNCHANGED <<isConnecting, manualDisconnect, reconnectAttempts, reconnectTimeout,
                   currentTopic, credsPending, conns, subInFlight, welcomePending,
                   connectCalls, guardedCall, lastPublish>>
    /\ ServiceStep

NoPublish == [error |-> "none", sent |-> FALSE]

\* publishMessage with the guard on the status left out
PublishUnguarded(ok) ==
    /\ lastPublish' = IF connection = NoConnection
                      THEN [error |-> "MQTT not connected", sent |-> FALSE]
                      ELSE [error |-> IF ok THEN "none" ELSE "Failed to publish message",
                            sent |-> TRUE]
    /\ UNCHANGED <<connectionStatus, isConnecting, manualDisconnect, reconnectAttempts,
                   reconnectTimeout, connection, currentTopic, credsPending, conns,
                   discCalls, subInFlight, welcomePending, connectCalls, guardedCall, lastFanout, mqttState>>
    /\ ServiceStep

\* publishMessage(topic, message): ok is the outcome of connection.publish
PublishMessage(ok) ==
    /\ lastPublish' = IF connection = NoConnection \/ connectionStatus # CONNECTED
                      THEN [error |-> "MQTT not connected", sent |-> FALSE]
                      ELSE [error |-> IF ok THEN "none" ELSE "Failed to publish message",
                            sent |-> TRUE]
    /\ UNCHANGED <<connectionStatus, isConnecting, manualDisconnect, reconnectAttempts,
                   reconnectTimeout, connection, currentTopic, credsPending, conns,
                   discCalls, subInFlight, welcomePending, connectCalls, guardedCall, lastFanout, mqttState>>
    /\ ServiceStep

\* ------------------------------------------ observer registry of MqttService
mqttRest == <<isConnecting, manualDisconnect, reconnectAttempts, reconnectTimeout,
              connection, currentTopic, credsPending, conns, discCalls, subInFlight,
              welcomePending, connectCalls, guardedCall, lastPublish>>

\* Array.prototype.indexOf, 1-based; 0 when absent
IndexOf(cbs, cb) ==
    IF \E i \in 1..Len(cbs) : cbs[i] = cb
    THEN CHOOSE i \in 1..Len(cbs) : cbs[i] = cb /\ \A j \in 1..(i - 1) : cbs[j] # cb
    ELSE 0

\* Array.prototype.splice(index, 1) on the 1-based index i
Splice(cbs, i) == SubSeq(cbs, 1, i - 1) \o SubSeq(cbs, i + 1, Len(cbs))

\* removeMessageCallback / removeStatusCallback on the list cbs
RemoveCallback(cbs, cb) == IF IndexOf(cbs, cb) > 0 THEN Splice(cbs, IndexOf(cbs, cb)) ELSE cbs

onMessage(callback) ==
    /\ Len(messageCallbacks) < MaxCallbacks
    /\ messageCallbacks' = Append(messageCallbacks, callback)
    /\ UNCHANGED <<statusCallbacks, lastFanout, mqttVars, steps, ctxVars, authVars, s3Vars, initializeVars>>

onStatusChange(callback) ==
    /\ Len(statusCallbacks) < MaxCallbacks
    /\ statusCallbacks' = Append(statusCallbacks, callback)
    /\ UNCHANGED <<messageCallbacks, lastFanout, mqttVars, steps, ctxVars, authVars, s3Vars, initializeVars>>

removeMessageCallback(callback) ==
    /\ messageCallbacks' = RemoveCallback(messageCallbacks, callback)
    /\ UNCHANGED <<statusCallbacks, lastFanout, mqttVars, steps, ctxVars, authVars, s3Vars, initializeVars>>

removeStatusCallback(callback) ==
    /\ statusCallbacks' = RemoveCallback(statusCallbacks, callback)
    /\ UNCHANGED <<messageCallbacks, lastFanout, mqttVars, steps, ctxVars, authVars, s3Vars, initializeVars>>

\* a message arrives on the subscription (or the welcome timer fires):
\* notifyMessageCallbacks
notifyMessageCallbacks ==
    /\ lastFanout' = NotifyCallbacks(messageCallbacks)
    /\ UNCHANGED <<messageCallbacks, statusCallbacks, mqttVars, steps, ctxVars, authVars, s3Vars, initializeVars>>

\* a handler of the service reports a status: setConnectionStatus -> notifyStatusCallbacks
StatusChanges(status) ==
    /\ setConnectionStatus(status)
    /\ UNCHANGED <<messageCallbacks, statusCallbacks, mqttRest, steps, ctxVars, authVars, s3Vars, initializeVars>>


\* handleMessage: the message observer the provider registers with the service
handleMessage ==
    /\ delivered < MaxMessages
    /\ delivered' = delivered + 1
    /\ mqttDispatch([type |-> "ADD_MESSAGE", payload |-> delivered + 1])
    /\ UNCHANGED <<providerCalls, mqttVars, fanoutVars, steps, authVars, s3Vars, initializeVars>>

\* handleStatusChange: the status observer the provider registers with the service
handleStatusChange(status) ==
    /\ mqttDispatch([type |-> "SET_STATUS", payload |-> status])
    /\ UNCHANGED <<delivered, providerCalls, mqttVars, fanoutVars, steps, authVars, s3Vars,
                   initializeVars>>

clearMessages ==
    /\ mqttDispatch([type |-> "CLEAR_MESSAGES", payload |-> ""])
    /\ UNCHANGED <<delivered, providerCalls, mqttVars, fanoutVars, steps, authVars, s3Vars,
                   initializeVars>>

\* clearError dispatches SET_ERROR with the empty string
clearError ==
    /\ mqttDispatch([type |-> "SET_ERROR", payload |-> ""])
    /\ UNCHANGED <<delivered, providerCalls, mqttVars, fanoutVars, steps, authVars, s3Vars,
                   initializeVars>>

reset ==
    /\ mqttDispatch([type |-> "RESET_STATE", payload |-> ""])
    /\ UNCHANGED <<delivered, providerCalls, mqttVars, fanoutVars, steps, authVars, s3Vars,
                   initializeVars>>

\* ------------------------------------- AuthProvider reducer (AuthContext)
LOADING == "loading"
AUTHENTICATED == "authenticated"
UNAUTHENTICATED == "unauthenticated"
CHALLENGE_REQUIRED == "challenge_required"

Users == {"alice"}
NoUser == ""
NoChallenge == "null"
\* the null AuthError
NoAuthError == [code |-> "", message |-> ""]
\* the null AuthSession
NoSession == [user |-> NoUser, refreshToken |-> FALSE, expiresAt |-> 0]

authInitialState ==
    [authState |-> LOADING, user |-> NoUser, error |-> NoAuthError,
     challengeSession |-> NoChallenge]

authReducer(st, action) ==
    CASE action.type = "SET_LOADING" ->
            [st EXCEPT !.authState = LOADING, !.error = NoAuthError]
      [] action.type = "SET_AUTHENTICATED" ->
            [st EXCEPT !.authState = AUTHENTICATED, !.user = action.payload,
                       !.error = NoAuthError, !.challengeSession = NoChallenge]
      [] action.type = "SET_UNAUTHENTICATED" ->
            [st EXCEPT !.authState = UNAUTHENTICATED, !.user = NoUser,
                       !.error = NoAuthError, !.challengeSession = NoChallenge]
      [] action.type = "SET_CHALLENGE_REQUIRED" ->
            [st EXCEPT !.authState = CHALLENGE_REQUIRED, !.user = action.payload.user,
                       !.challengeSession = action.payload.session,
                       !.error = NoAuthError]
      [] action.type = "SET_ERROR" ->
            [st EXCEPT !.error = action.payload,
                       !.authState = IF @ = LOADING THEN UNAUTHENTICATED ELSE @]
      [] action.type = "CLEAR_ERROR" ->
            [st EXCEPT !.error = NoAuthError]
      [] OTHER -> st

\* the reducer applied to the dispatches of one synchronous stretch, in order
RECURSIVE authReduceAll(_, _)
authReduceAll(st, actions) ==
    IF actions = <<>> THEN st
    ELSE authReduceAll(authReducer(st, Head(actions)), Tail(actions))

authDispatch(actions) == authCtx' = authReduceAll(authCtx, actions)

Do(type) == [type |-> type, payload |-> ""]
SetError(code, message) ==
    [type |-> "SET_ERROR", payload |-> [code |-> code, message |-> message]]

\* ------------------------------------------------------------- AuthService
\* authCalls holds one call of each provider operation at a time, the number of
\* refresh requests in flight, and refreshFailed: a refresh request has thrown and no
\* session has been installed since; the clock counts units of 5 minutes
\* TOKEN_REFRESH_THRESHOLD = 5 * 60 * 1000 ms
TOKEN_REFRESH_THRESHOLD == 1
\* the lifetime taken when the answer carries no ExpiresIn: 3600 s
DefaultExpiresIn == 12
\* the ExpiresIn of an answer of the identity provider; 0 is an answer without one
ExpiresInValues == {0, 1, 2}
\* Date.now() + (ExpiresIn || 3600) * 1000
ExpiryOf(t, expiresIn) == t + (IF expiresIn = 0 THEN DefaultExpiresIn ELSE expiresIn)

\* this.refreshTimer: null, the handle of a timer yet to fire, or the handle of one
\* that fired
NoRefreshTimer == [state |-> "null", fireAt |-> 0]

\* clearStoredSession
clearStoredSession ==
    /\ storedSession' = NoSession
    /\ currentSession' = NoSession
    /\ refreshTimer' = NoRefreshTimer

\* scheduleTokenRefresh: the handle after the call made at t, for the session and the
\* handle before it
scheduleTokenRefresh(session, timer, t) ==
    IF session = NoSession \/ timer # NoRefreshTimer THEN timer
    ELSE IF session.expiresAt - t - TOKEN_REFRESH_THRESHOLD > 0
         THEN [state |-> "pending", fireAt |-> session.expiresAt - TOKEN_REFRESH_THRESHOLD]
         ELSE NoRefreshTimer

\* a new session is installed: currentSession = session; storeSession;
\* scheduleTokenRefresh
installSession(session) ==
    /\ currentSession' = session
    /\ storedSession' = session
    /\ refreshTimer' = scheduleTokenRefresh(session, refreshTimer, now)

\* AuthService.isAuthenticated at t
isAuthenticated(session, t) == session # NoSession /\ t < session.expiresAt

\* ------------------------------------------------------- DiscoveryService
\* CACHE_DURATION = 1000 * 60 * 60 ms
CACHE_DURATION == 12

\* JavaScript values: undefined, a string, a number, an array of strings
Undefined == [type |-> "undefined", s |-> "", n |-> 0, a |-> <<>>]
Str(s) == [type |-> "string", s |-> s, n |-> 0, a |-> <<>>]
Num(n) == [type |-> "number", s |-> "", n |-> n, a |-> <<>>]
Arr(a) == [type |-> "array", s |-> "", n |-> 0, a |-> a]
\* the truthiness of a value: '' and 0 are falsy, every array is truthy
Truthy(value) ==
    CASE value.type = "string" -> value.s # ""
      [] value.type = "number" -> value.n # 0
      [] value.type = "array" -> TRUE
      [] OTHER -> FALSE

\* an object is the list of its properties in insertion order
Prop(key, value) == [key |-> key, value |-> value]
HasKey(obj, key) == \E i \in DOMAIN obj : obj[i].key = key
\* obj[key]
Get(obj, key) ==
    IF HasKey(obj, key)
    THEN obj[CHOOSE i \in DOMAIN obj : obj[i].key = key].value
    ELSE Undefined
\* obj[key] = value
Put(obj, key, value) ==
    IF HasKey(obj, key)
    THEN [i \in DOMAIN obj |-> IF obj[i].key = key THEN Prop(key, value) ELSE obj[i]]
    ELSE Append(obj, Prop(key, value))
\* { ...base, ...extra }
RECURSIVE Spread(_, _)
Spread(base, extra) ==
    IF extra = <<>> THEN base
    ELSE Spread(Put(base, Head(extra).key, Head(extra).value), Tail(extra))

\* JSON.stringify of an object: the text is the list of its members, and a property
\* whose value is undefined has none
JSONstringify(obj) == SelectSeq(obj, LAMBDA p : p.value.type # "undefined")
\* JSON.parse of such a text: the object of its members
JSONparse(text) == Spread(<<>>, text)

\* no entry under CACHE_KEY
NoCache == [present |-> FALSE, text |-> <<>>]

\* getCachedResults at t: what it returns (found: not null) and the entry it leaves
\* under CACHE_KEY; an entry past its expiresAt is removed
getCachedResults(cache, t) ==
    IF ~cache.present
    THEN [found |-> FALSE, value |-> <<>>, storage |-> cache]
    ELSE LET parsedCache == JSONparse(cache.text)
             expiresAt == Get(parsedCache, "expiresAt")
         IN  IF expiresAt.type = "number" /\ t > expiresAt.n
             THEN [found |-> FALSE, value |-> <<>>, storage |-> NoCache]
             ELSE [found |-> TRUE, value |-> parsedCache, storage |-> cache]

\* setCachedResults(cache) at t: the entry it leaves under CACHE_KEY
setCachedResultsNoLifetime(cache, t) ==
    LET cacheData == Spread(<<Prop("timestamp", Num(t)), Prop("expiresAt", Num(t))>>, cache)
    IN  [present |-> TRUE, text |-> JSONstringify(cacheData)]

setCachedResults(cache, t) ==
    LET cacheData == Spread(<<Prop("timestamp", Num(t)),
                              Prop("expiresAt", Num(t + CACHE_DURATION))>>, cache)
    IN  [present |-> TRUE, text |-> JSONstringify(cacheData)]

\* isCacheValid at t
isCacheValid(cache, t) == getCachedResults(cache, t).found

\* the answers to DescribeEndpoint: an endpoint address, an answer without one, a
\* rejection
IotEndpoints == {"a.iot", "b.iot"}
EndpointResponses ==
    [ok : {TRUE}, address : IotEndpoints \cup {""}] \cup [ok : {FALSE}, address : {""}]
\* the answers to the request of a warm-up
WarmUpResponses == {r \in EndpointResponses : r.address \in {"", "a.iot"}}
\* discoverIoTEndpoint resolves on the answer
endpointDiscovered(response) == response.ok /\ response.address # ""

\* discoverS3Buckets: the bucket of the environment, if any
discoverS3Buckets == IF envBucket = "" THEN <<>> ELSE <<envBucket>>

\* initializeClients succeeds: credentials are held already or the user is
\* authenticated
canInitializeClients == discoveryCredentials # NoUser \/ isAuthenticated(currentSession', now)

\* `cached && cached.iotEndpoint && cached.s3Buckets`
cacheUsable(cached) ==
    /\ cached.found
    /\ Truthy(Get(cached.value, "iotEndpoint"))
    /\ Truthy(Get(cached.value, "s3Buckets"))

\* getDefaultConfiguration up to `await Promise.all([...])`: an expired entry is
\* removed; without a usable entry initializeClients runs and, unless it throws, the
\* endpoint request is sent. TRUE when the request is sent.
discoveryStarts ==
    ~cacheUsable(getCachedResults(discoveryCache, now)) /\ canInitializeClients

getDefaultConfiguration ==
    /\ discoveryCache' = getCachedResults(discoveryCache, now).storage
    /\ discoveryCredentials' =
            IF discoveryStarts /\ discoveryCredentials = NoUser
            THEN currentSession'.user ELSE discoveryCredentials

\* getDefaultConfiguration after the endpoint request settled: the results are cached
discoverySettles(response) ==
    /\ discoveryCache' =
            IF endpointDiscovered(response)
            THEN setCachedResults(<<Prop("iotEndpoint", Str(response.address)),
                                    Prop("s3Buckets", Arr(discoverS3Buckets))>>, now)
            ELSE discoveryCache
    /\ UNCHANGED discoveryCredentials

\* clearCache
clearCacheWhenExpired ==
    /\ discoveryCache' = getCachedResults(discoveryCache, now).storage
    /\ UNCHANGED discoveryCredentials

clearCache == discoveryCache' = NoCache /\ UNCHANGED discoveryCredentials

\* ------------------------------------------------ MqttService.initialize
\* no initialize call was made
NoInitialize == [provided |-> "", requested |-> FALSE, outcome |-> "none", error |-> ""]
\* the endpoint argument of initialize; "" when it is left out
ProvidedEndpoints == {"", "custom.iot"}

\* initialize(credentials, region, endpoint) up to its end or, without an endpoint, to
\* the endpoint request of discoverIoTEndpoint; a throw of initializeClients ends the
\* call with the initialization error
initializeAlwaysDiscovers(provided) ==
    /\ UNCHANGED <<authCtx, currentSession, storedSession, refreshTimer, authCalls, now,
                   discoveryCache, lastCurrentUser>>
    /\ UNCHANGED <<mqttVars, fanoutVars, steps, ctxVars, s3Vars>>
    /\ IF canInitializeClients
       THEN /\ initializeCalls < MaxInitializeCalls
            /\ initializeCalls' = initializeCalls + 1
            /\ discoveryCredentials' = IF discoveryCredentials = NoUser
                                       THEN currentSession.user ELSE discoveryCredentials
            /\ lastInitialize' = [provided |-> provided, requested |-> TRUE,
                                  outcome |-> "pending", error |-> ""]
            /\ UNCHANGED endpoint
       ELSE /\ lastInitialize' = [provided |-> provided, requested |-> FALSE,
                                  outcome |-> "rejected",
                                  error |-> "MQTT Service initialization failed"]
            /\ UNCHANGED <<endpoint, initializeCalls, discoveryCredentials>>

initializeStarts(provided) ==
    /\ IF provided # ""
       THEN /\ endpoint' = provided
            /\ lastInitialize' = [provided |-> provided, requested |-> FALSE,
                                  outcome |-> "resolved", error |-> ""]
            /\ UNCHANGED <<initializeCalls, discoveryCredentials>>
       ELSE IF canInitializeClients
       THEN /\ initializeCalls < MaxInitializeCalls
            /\ initializeCalls' = initializeCalls + 1
            /\ discoveryCredentials' = IF discoveryCredentials = NoUser
                                       THEN currentSession.user ELSE discoveryCredentials
            /\ lastInitialize' = [provided |-> provided, requested |-> TRUE,
                                  outcome |-> "pending", error |-> ""]
            /\ UNCHANGED endpoint
       ELSE /\ lastInitialize' = [provided |-> provided, requested |-> FALSE,
                                  outcome |-> "rejected",
                                  error |-> "MQTT Service initialization failed"]
            /\ UNCHANGED <<endpoint, initializeCalls, discoveryCredentials>>

\* initialize called by a caller other than the provider
initialize(provided) ==
    /\ UNCHANGED <<authCtx, currentSession, storedSession, refreshTimer, authCalls, now,
                   discoveryCache, lastCurrentUser>>
    /\ UNCHANGED <<mqttVars, fanoutVars, steps, ctxVars, s3Vars>>
    /\ initializeStarts(provided)

\* initialize after `await discoveryService.discoverIoTEndpoint(region)`
initializeResumes(response) ==
    /\ initializeCalls > 0
    /\ initializeCalls' = initializeCalls - 1
    /\ IF endpointDiscovered(response)
       THEN /\ endpoint' = response.address
            /\ lastInitialize' = [provided |-> "", requested |-> TRUE,
                                  outcome |-> "resolved", error |-> ""]
       ELSE /\ lastInitialize' = [provided |-> "", requested |-> TRUE,
                                  outcome |-> "rejected",
                                  error |-> "MQTT Service initialization failed"]
            /\ UNCHANGED endpoint

\* the initialize of a caller other than the provider is answered
initializeAnswered(response) ==
    /\ initializeResumes(response)
    /\ UNCHANGED <<authVars, mqttVars, fanoutVars, steps, ctxVars, s3Vars>>

\* isCacheValid is called: an entry past its expiry is removed
checkCacheValid ==
    /\ discoveryCache' = getCachedResults(discoveryCache, now).storage
    /\ UNCHANGED <<authCtx, currentSession, storedSession, refreshTimer, authCalls, now,
                   discoveryCredentials, lastCurrentUser, nonAuthVars>>

\* connection.subscribe calls, summed over the connections created so far
RECURSIVE SubscribeCallsUpTo(_)
SubscribeCallsUpTo(n) == IF n = 0 THEN 0 ELSE conns[n].subBy + SubscribeCallsUpTo(n - 1)
\* subscribe calls issued so far
SubscribeCalls == SubscribeCallsUpTo(Len(conns))

\* ------------------------------------- MqttProvider: connect and disconnect
\* useAuthenticatedAWS: isAuthenticated, and credentials (null when getAWSCredentials
\* throws for want of a session)
providerIsAuthenticated == authCtx.authState = AUTHENTICATED
providerCredentials ==
    providerIsAuthenticated /\ authCtx.user # NoUser /\ currentSession # NoSession

\* one callback of the provider runs; it leaves the authentication state alone
ProviderStep ==
    /\ steps < MaxSteps
    /\ steps' = steps + 1
    /\ UNCHANGED <<delivered, s3Vars, authCtx, currentSession, storedSession, refreshTimer,
                   authCalls, now, discoveryCache, lastCurrentUser>>

\* connect(topic) of the context up to `await mqttService.initialize(credentials, region)`
providerConnect(topic) ==
    /\ providerCalls.connect = "idle"
    /\ IF topic = ""
       THEN /\ mqttDispatch([type |-> "SET_ERROR", payload |-> "Topic is required"])
            /\ UNCHANGED <<providerCalls, initializeVars, discoveryCredentials>>
       ELSE IF ~providerIsAuthenticated \/ ~providerCredentials
       THEN /\ mqttDispatch([type |-> "SET_ERROR", payload |-> "Authentication required"])
            /\ UNCHANGED <<providerCalls, initializeVars, discoveryCredentials>>
       ELSE /\ initializeStarts("")
            /\ IF lastInitialize'.outcome = "pending"
               THEN /\ mqttDispatch([type |-> "SET_CONNECTING"])
                    /\ providerCalls' = [providerCalls EXCEPT !.connect = "initialize",
                                                              !.topic = topic]
               ELSE /\ mqttState' = mqttReduceAll(mqttState,
                                        <<[type |-> "SET_CONNECTING"],
                                          [type |-> "SET_ERROR",
                                           payload |-> lastInitialize'.error]>>)
                    /\ UNCHANGED providerCalls
    /\ UNCHANGED <<mqttVars, fanoutVars>>
    /\ ProviderStep

\* connect(topic) of the context after the await of initialize: on a rejection the catch
\* block; else onMessage(handleMessage), onStatusChange(handleStatusChange) and
\* mqttService.connect(topic) up to its await or to its early return
providerConnectInitialized(response) ==
    /\ providerCalls.connect = "initialize"
    /\ initializeResumes(response)
    /\ IF endpointDiscovered(response)
       THEN /\ Len(messageCallbacks) < MaxCallbacks
            /\ Len(statusCallbacks) < MaxCallbacks
            /\ messageCallbacks' = Append(messageCallbacks, HandleMessage)
            /\ statusCallbacks' = Append(statusCallbacks, HandleStatusChange)
            /\ connectStarts(providerCalls.topic, reconnectTimeout, mqttState,
                             statusCallbacks')
            /\ providerCalls' =
                    [providerCalls EXCEPT !.connect =
                        IF credsPending'[providerCalls.topic] > credsPending[providerCalls.topic]
                        THEN "connect" ELSE "idle"]
       ELSE /\ mqttDispatch([type |-> "SET_ERROR", payload |-> lastInitialize'.error])
            /\ providerCalls' = [providerCalls EXCEPT !.connect = "idle"]
            /\ UNCHANGED <<mqttVars, fanoutVars>>
    /\ UNCHANGED discoveryCredentials
    /\ ProviderStep

\* the suspended mqttService.connect calls on topic that the provider awaits
providerPending(topic) ==
    IF providerCalls.connect = "connect" /\ providerCalls.topic = topic THEN 1 ELSE 0

\* the mqttService.connect(topic) the provider awaits resumes; when it throws, the
\* catch block of the context's connect dispatches SET_ERROR
providerConnectResumes(ok) ==
    /\ providerCalls.connect = "connect"
    /\ connectResumes(providerCalls.topic, ok,
                      <<[type |-> "SET_ERROR", payload |-> "Failed to connect to MQTT"]>>)
    /\ providerCalls' = [providerCalls EXCEPT !.connect = "idle"]
    /\ UNCHANGED <<messageCallbacks, statusCallbacks, initializeVars, discoveryCredentials>>
    /\ ProviderStep

\* disconnect() of the context up to `await mqttService.disconnect()`
providerDisconnect ==
    /\ providerCalls.disconnect = "idle"
    /\ messageCallbacks' = RemoveCallback(messageCallbacks, HandleMessage)
    /\ statusCallbacks' = RemoveCallback(statusCallbacks, HandleStatusChange)
    /\ disconnectStarts(mqttState, statusCallbacks')
    /\ providerCalls' = [providerCalls EXCEPT !.disconnect = "disconnect"]
    /\ UNCHANGED <<initializeVars, discoveryCredentials>>
    /\ ProviderStep

\* mqttService.disconnect() has returned to the context's disconnect
providerDisconnectResumable ==
    providerCalls.disconnect = "disconnect" /\ discCalls = [unsub |-> 0, disc |-> 0]

\* disconnect() of the context after the await: dispatch SET_DISCONNECTED
providerDisconnectReturns ==
    /\ providerDisconnectResumable
    /\ mqttDispatch([type |-> "SET_DISCONNECTED"])
    /\ providerCalls' = [providerCalls EXCEPT !.disconnect = "idle"]
    /\ UNCHANGED <<mqttVars, fanoutVars, initializeVars, discoveryCredentials>>
    /\ ProviderStep

\* a message arrives on a subscription: notifyMessageCallbacks(mqttMessage)
messageReceived ==
    /\ connection # NoConnection
    /\ SubscribeCalls > subInFlight
    /\ delivered < MaxMessages
    /\ delivered' = delivered + 1
    /\ lastFanout' = NotifyCallbacks(messageCallbacks)
    /\ mqttState' = messageObserved(mqttState, messageCallbacks, delivered + 1)
    /\ steps < MaxSteps
    /\ steps' = steps + 1
    /\ UNCHANGED <<mqttVars, messageCallbacks, statusCallbacks, providerCalls, authVars,
                   s3Vars, initializeVars>>

\* the answers of the identity provider to InitiateAuth (USER_PASSWORD_AUTH)
SignInRejections ==
    {"NotAuthorizedException", "UserNotConfirmedException",
     "PasswordResetRequiredException", "UserNotFoundException",
     "TooManyRequestsException", "NetworkError"}
SignInResponses ==
    {"AuthenticationResult", "MissingTokens", "NEW_PASSWORD_REQUIRED", "SMS_MFA", "Empty"}
        \cup SignInRejections

\* the catch block of AuthService.signIn: the message of the error it throws
signInErrorMessage(name) ==
    CASE name = "NotAuthorizedException" -> "Invalid username or password"
      [] name = "UserNotConfirmedException" -> "User account not confirmed"
      [] name = "PasswordResetRequiredException" -> "Password reset required"
      [] name = "UserNotFoundException" -> "User not found"
      [] name = "TooManyRequestsException" -> "Too many requests. Please try again later"
      [] OTHER -> "Sign-in failed. Please try again"

IdleCall == [pc |-> "idle", username |-> NoUser]

\* the catch block of AuthProvider.signIn
signInFailed(message) ==
    /\ authDispatch(<<SetError("SIGN_IN_ERROR", message), Do("SET_UNAUTHENTICATED")>>)
    /\ authCalls' = [authCalls EXCEPT !.signIn = IdleCall]

\* no call of getCurrentUser awaits delivery
NoCurrentUserCall == [called |-> FALSE, session |-> NoSession, at |-> 0, returned |-> "null"]

\* the effect of the provider on mount: initializeAuth up to `await getCurrentUser()`;
\* getCurrentUser runs to its end within the call
initializeAuthKeepsUntilAfterExpiry ==
    /\ authCalls.init = "mount"
    /\ authDispatch(<<Do("SET_LOADING")>>)
    /\ IF currentSession = NoSession \/ now > currentSession.expiresAt
       THEN /\ clearStoredSession
            /\ authCalls' = [authCalls EXCEPT !.init = "null"]
       ELSE /\ authCalls' = [authCalls EXCEPT !.init = currentSession.user]
            /\ UNCHANGED <<currentSession, storedSession, refreshTimer>>
    /\ lastCurrentUser' = [called |-> TRUE, session |-> currentSession, at |-> now,
                           returned |-> authCalls'.init]
    /\ UNCHANGED <<now, discoveryVars, nonAuthVars>>

initializeAuth ==
    /\ authCalls.init = "mount"
    /\ authDispatch(<<Do("SET_LOADING")>>)
    /\ IF currentSession = NoSession
       THEN /\ authCalls' = [authCalls EXCEPT !.init = "null"]
            /\ UNCHANGED <<currentSession, storedSession, refreshTimer>>
       ELSE IF now >= currentSession.expiresAt
       THEN /\ clearStoredSession
            /\ authCalls' = [authCalls EXCEPT !.init = "null"]
       ELSE /\ authCalls' = [authCalls EXCEPT !.init = currentSession.user]
            /\ UNCHANGED <<currentSession, storedSession, refreshTimer>>
    /\ lastCurrentUser' = [called |-> TRUE, session |-> currentSession, at |-> now,
                           returned |-> authCalls'.init]
    /\ UNCHANGED <<now, discoveryVars, nonAuthVars>>

\* initializeAuth after `await getCurrentUser()`, up to its end or, for a user, to the
\* endpoint request of the discovery warm-up
initializeAuthResume ==
    /\ authCalls.init \notin {"mount", "discover", "done"}
    /\ lastCurrentUser' = NoCurrentUserCall
    /\ UNCHANGED <<currentSession, storedSession, refreshTimer>>
    /\ IF authCalls.init = "null"
       THEN /\ authDispatch(<<Do("SET_UNAUTHENTICATED")>>)
            /\ authCalls' = [authCalls EXCEPT !.init = "done"]
            /\ UNCHANGED discoveryVars
       ELSE /\ authDispatch(<<[type |-> "SET_AUTHENTICATED", payload |-> authCalls.init]>>)
            /\ getDefaultConfiguration
            /\ authCalls' = [authCalls EXCEPT
                                !.init = IF discoveryStarts THEN "discover" ELSE "done"]
    /\ UNCHANGED <<now, nonAuthVars>>

\* initializeAuth after the discovery warm-up settled; its failure is caught
initializeAuthDiscovered(response) ==
    /\ authCalls.init = "discover"
    /\ discoverySettles(response)
    /\ authCalls' = [authCalls EXCEPT !.init = "done"]
    /\ UNCHANGED <<authCtx, currentSession, storedSession, refreshTimer, now, lastCurrentUser, nonAuthVars>>

\* AuthProvider.signIn up to `await authService.signIn(...)`, itself suspended at
\* `await this.cognitoClient.send(command)`
signIn(username) ==
    /\ authCalls.signIn.pc = "idle"
    /\ authDispatch(<<Do("SET_LOADING"), Do("CLEAR_ERROR")>>)
    /\ authCalls' = [authCalls EXCEPT !.signIn = [pc |-> "send", username |-> username]]
    /\ UNCHANGED <<currentSession, storedSession, refreshTimer,
                   now, lastCurrentUser, discoveryVars, nonAuthVars>>

\* the identity provider answers the sign-in
signInResponse(response) ==
    /\ authCalls.signIn.pc = "send"
    /\ CASE response = "AuthenticationResult" ->
                /\ authCalls' = [authCalls EXCEPT !.signIn.pc = "getUser"]
                /\ UNCHANGED authCtx
         [] response = "NEW_PASSWORD_REQUIRED" ->
                /\ authDispatch(<<[type |-> "SET_CHALLENGE_REQUIRED",
                                   payload |-> [user |-> authCalls.signIn.username,
                                                session |-> "challenge-session"]]>>)
                /\ authCalls' = [authCalls EXCEPT !.signIn = IdleCall]
         [] response = "SMS_MFA" ->
                /\ authDispatch(<<[type |-> "SET_AUTHENTICATED",
                                   payload |-> authCalls.signIn.username]>>)
                /\ authCalls' = [authCalls EXCEPT !.signIn = IdleCall]
         [] OTHER -> signInFailed(signInErrorMessage(response))
    /\ UNCHANGED <<currentSession, storedSession, refreshTimer,
                   now, lastCurrentUser, discoveryVars, nonAuthVars>>

\* AuthService.signIn after `await this.createCognitoUser(AccessToken)`: the session
\* is installed (hasRefreshToken: the answer carried a RefreshToken, expiresIn its
\* ExpiresIn) and the discovery warm-up starts, or the throw of createCognitoUser
\* reaches the catch blocks
signInUserFetched(ok, hasRefreshToken, expiresIn) ==
    /\ authCalls.signIn.pc = "getUser"
    /\ IF ok
       THEN /\ installSession([user |-> authCalls.signIn.username,
                               refreshToken |-> hasRefreshToken,
                               expiresAt |-> ExpiryOf(now, expiresIn)])
            /\ getDefaultConfiguration
            /\ authCalls' = [authCalls EXCEPT
                                !.signIn.pc = IF discoveryStarts THEN "discover" ELSE "warmUp",
                                !.refreshFailed = FALSE]
            /\ UNCHANGED authCtx
       ELSE /\ signInFailed(signInErrorMessage("Error"))
            /\ UNCHANGED <<currentSession, storedSession, refreshTimer, discoveryVars>>
    /\ UNCHANGED <<now, lastCurrentUser, nonAuthVars>>

\* AuthService.signIn after the discovery warm-up settled; its failure is caught
signInDiscoveredRethrows(response) ==
    /\ authCalls.signIn.pc = "discover"
    /\ discoverySettles(response)
    /\ IF endpointDiscovered(response)
       THEN /\ authCalls' = [authCalls EXCEPT !.signIn.pc = "warmUp"]
            /\ UNCHANGED authCtx
       ELSE signInFailed(signInErrorMessage("Error"))
    /\ UNCHANGED <<currentSession, storedSession, refreshTimer, now, lastCurrentUser, nonAuthVars>>

signInDiscovered(response) ==
    /\ authCalls.signIn.pc = "discover"
    /\ discoverySettles(response)
    /\ authCalls' = [authCalls EXCEPT !.signIn.pc = "warmUp"]
    /\ UNCHANGED <<authCtx, currentSession, storedSession, refreshTimer, now, lastCurrentUser, nonAuthVars>>

\* how the policy attachment ends: the policy is attached, no identity id is found,
\* or getAWSCredentials, getIdentityId or attachPolicyToIdentity throws
PolicyOutcomes == {"attached", "noIdentity", "failed"}

\* AuthService.signIn returns after the policy attachment, whose failure is caught;
\* the provider dispatches SET_AUTHENTICATED
signInReturns(policy) ==
    /\ authCalls.signIn.pc = "warmUp"
    /\ authDispatch(<<[type |-> "SET_AUTHENTICATED", payload |-> authCalls.signIn.username]>>)
    /\ authCalls' = [authCalls EXCEPT !.signIn = IdleCall]
    /\ UNCHANGED <<currentSession, storedSession, refreshTimer,
                   now, lastCurrentUser, discoveryVars, nonAuthVars>>

\* AuthProvider.signOut up to `await authService.signOut()`, itself suspended at the
\* GlobalSignOut call when a session holds an access token, and run to its end
\* (clearStoredSession, discoveryService.clearCache) when none does
signOut ==
    /\ authCalls.signOut = "idle"
    /\ authDispatch(<<Do("SET_LOADING")>>)
    /\ IF currentSession # NoSession
       THEN /\ authCalls' = [authCalls EXCEPT !.signOut = "send"]
            /\ UNCHANGED <<currentSession, storedSession, refreshTimer>>
            /\ UNCHANGED discoveryVars
       ELSE /\ authCalls' = [authCalls EXCEPT !.signOut = "return"]
            /\ clearStoredSession
            /\ clearCache
    /\ UNCHANGED <<now, lastCurrentUser, nonAuthVars>>

\* AuthService.signOut after the GlobalSignOut call settled: its failure is caught
\* ("caught"), and either way the local session and the discovery cache are cleared
signOutResponseKeepsOnFailure(ok) ==
    /\ authCalls.signOut = "send"
    /\ IF ok
       THEN clearStoredSession /\ clearCache
       ELSE UNCHANGED <<currentSession, storedSession, refreshTimer, discoveryVars>>
    /\ authCalls' = [authCalls EXCEPT !.signOut = IF ok THEN "return" ELSE "caught"]
    /\ UNCHANGED <<authCtx, now, lastCurrentUser, nonAuthVars>>

signOutResponse(ok) ==
    /\ authCalls.signOut = "send"
    /\ clearStoredSession
    /\ clearCache
    /\ authCalls' = [authCalls EXCEPT !.signOut = IF ok THEN "return" ELSE "caught"]
    /\ UNCHANGED <<authCtx, now, lastCurrentUser, nonAuthVars>>

\* AuthProvider.signOut after `await authService.signOut()`
signOutReturns ==
    /\ authCalls.signOut \in {"return", "caught"}
    /\ authDispatch(<<Do("SET_UNAUTHENTICATED")>>)
    /\ authCalls' = [authCalls EXCEPT !.signOut = "idle"]
    /\ UNCHANGED <<currentSession, storedSession, refreshTimer,
                   now, lastCurrentUser, discoveryVars, nonAuthVars>>

\* the catch block of AuthProvider.completeNewPassword
completeNewPasswordFailed ==
    /\ authDispatch(<<SetError("NEW_PASSWORD_ERROR",
                               "Failed to set new password. Please try again")>>)
    /\ authCalls' = [authCalls EXCEPT !.newPassword = IdleCall]

\* AuthProvider.completeNewPassword up to `await authService.completeNewPassword(...)`,
\* itself suspended at `await this.cognitoClient.send(command)`
completeNewPassword ==
    /\ authCalls.newPassword.pc = "idle"
    /\ authDispatch(<<Do("SET_LOADING"), Do("CLEAR_ERROR")>>)
    /\ authCalls' = [authCalls EXCEPT !.newPassword.pc = "send"]
    /\ UNCHANGED <<currentSession, storedSession, refreshTimer,
                   now, lastCurrentUser, discoveryVars, nonAuthVars>>

\* the identity provider answers the challenge response
completeNewPasswordResponse(response) ==
    /\ authCalls.newPassword.pc = "send"
    /\ IF response = "AuthenticationResult"
       THEN /\ authCalls' = [authCalls EXCEPT !.newPassword.pc = "getUser"]
            /\ UNCHANGED authCtx
       ELSE completeNewPasswordFailed
    /\ UNCHANGED <<currentSession, storedSession, refreshTimer,
                   now, lastCurrentUser, discoveryVars, nonAuthVars>>

\* AuthService.completeNewPassword after `await this.createCognitoUser(AccessToken)`:
\* username is the Username of the GetUser answer
completeNewPasswordUserFetched(ok, username, hasRefreshToken, expiresIn) ==
    /\ authCalls.newPassword.pc = "getUser"
    /\ IF ok
       THEN /\ installSession([user |-> username, refreshToken |-> hasRefreshToken,
                               expiresAt |-> ExpiryOf(now, expiresIn)])
            /\ authCalls' = [authCalls EXCEPT
                                !.newPassword = [pc |-> "warmUp", username |-> username],
                                !.refreshFailed = FALSE]
            /\ UNCHANGED authCtx
       ELSE /\ completeNewPasswordFailed
            /\ UNCHANGED <<currentSession, storedSession, refreshTimer>>
    /\ UNCHANGED <<now, lastCurrentUser, discoveryVars, nonAuthVars>>

\* AuthService.completeNewPassword returns after the policy attachment, whose failure
\* is caught; the provider dispatches SET_AUTHENTICATED
completeNewPasswordReturns(policy) ==
    /\ authCalls.newPassword.pc = "warmUp"
    /\ authDispatch(<<[type |-> "SET_AUTHENTICATED",
                       payload |-> authCalls.newPassword.username]>>)
    /\ authCalls' = [authCalls EXCEPT !.newPassword = IdleCall]
    /\ UNCHANGED <<currentSession, storedSession, refreshTimer,
                   now, lastCurrentUser, discoveryVars, nonAuthVars>>

\* clearError of the AuthProvider
clearAuthError ==
    /\ authDispatch(<<Do("CLEAR_ERROR")>>)
    /\ UNCHANGED <<currentSession, storedSession, refreshTimer, authCalls,
                   now, lastCurrentUser, discoveryVars, nonAuthVars>>

\* the answers of the identity provider to the other requests
IdpRejections == {"NotAuthorizedException"}
IdpResponses == {"AuthenticationResult", "MissingTokens", "Empty"} \cup IdpRejections

\* the refresh timer fires: refreshTokens up to `await this.cognitoClient.send(command)`,
\* or to its early return when no refresh token is held; the handle stays in
\* refreshTimer
refreshTimerFires ==
    /\ refreshTimer.state = "pending"
    /\ now >= refreshTimer.fireAt
    /\ authCalls.refresh < MaxRefreshInFlight
    /\ refreshTimer' = [state |-> "fired", fireAt |-> 0]
    /\ authCalls' = IF currentSession.refreshToken
                    THEN [authCalls EXCEPT !.refresh = @ + 1]
                    ELSE authCalls
    /\ UNCHANGED <<authCtx, currentSession, storedSession,
                   now, lastCurrentUser, discoveryVars, nonAuthVars>>

\* refreshTokens after the identity provider answered: new tokens are written into the
\* current session (a TypeError, caught, when it is null by now), stored, and
\* scheduleTokenRefresh is called; an error clears the session
refreshResponseRetries(response, expiresIn) ==
    /\ authCalls.refresh > 0
    /\ authCalls' = [authCalls EXCEPT !.refresh = @ - 1,
                                      !.refreshFailed = @ \/ response \in IdpRejections]
    /\ CASE response = "AuthenticationResult" /\ currentSession # NoSession ->
                /\ currentSession' =
                        [currentSession EXCEPT !.expiresAt = ExpiryOf(now, expiresIn)]
                /\ storedSession' = currentSession'
                /\ refreshTimer' = scheduleTokenRefresh(currentSession', refreshTimer, now)
         [] response \in {"MissingTokens", "Empty"} ->
                UNCHANGED <<currentSession, storedSession, refreshTimer>>
         [] response \in IdpRejections /\ currentSession # NoSession ->
                /\ refreshTimer' = [state |-> "pending", fireAt |-> now]
                /\ UNCHANGED <<currentSession, storedSession>>
         [] OTHER -> clearStoredSession
    /\ UNCHANGED <<authCtx, now, lastCurrentUser, discoveryVars, nonAuthVars>>

refreshResponse(response, expiresIn) ==
    /\ authCalls.refresh > 0
    /\ authCalls' = [authCalls EXCEPT !.refresh = @ - 1,
                                      !.refreshFailed = @ \/ response \in IdpRejections]
    /\ CASE response = "AuthenticationResult" /\ currentSession # NoSession ->
                /\ currentSession' =
                        [currentSession EXCEPT !.expiresAt = ExpiryOf(now, expiresIn)]
                /\ storedSession' = currentSession'
                /\ refreshTimer' = scheduleTokenRefresh(currentSession', refreshTimer, now)
         [] response \in {"MissingTokens", "Empty"} ->
                UNCHANGED <<currentSession, storedSession, refreshTimer>>
         [] OTHER -> clearStoredSession
    /\ UNCHANGED <<authCtx, now, lastCurrentUser, discoveryVars, nonAuthVars>>


\* the sessions an earlier visit may have stored
Sessions == [user : Users, refreshToken : BOOLEAN, expiresAt : 0..MaxStoredExpiry]

\* time passes, except between a promise settling and its continuation
Tick ==
    /\ now < MaxTime
    /\ authCalls.init \in {"mount", "discover", "done"}
    /\ now' = now + 1
    /\ UNCHANGED <<authCtx, currentSession, storedSession, refreshTimer, authCalls,
                   lastCurrentUser, discoveryVars, nonAuthVars>>

\* the lifetime of a cache entry passes
Elapse ==
    /\ now + CACHE_DURATION + 1 <= MaxHours * (CACHE_DURATION + 1)
    /\ authCalls.init \in {"mount", "discover", "done"}
    /\ now' = now + CACHE_DURATION + 1
    /\ UNCHANGED <<authCtx, currentSession, storedSession, refreshTimer, authCalls,
                   lastCurrentUser, discoveryVars, nonAuthVars>>

\* no call of the provider or the service is under way; the mount effect has not run
NoAuthCalls ==
    [init |-> "mount", signIn |-> IdleCall, signOut |-> "idle",
     newPassword |-> IdleCall, refresh |-> 0, refreshFailed |-> FALSE]

\* AuthService as constructed at time 0: loadStoredSession on the entry stored (none
\* when stored is NoSession); an expired entry is removed
loadStoredSession(stored) ==
    /\ now = 0
    /\ IF stored = NoSession \/ now >= stored.expiresAt
       THEN /\ currentSession = NoSession
            /\ storedSession = NoSession
            /\ refreshTimer = NoRefreshTimer
       ELSE /\ currentSession = stored
            /\ storedSession = stored
            /\ refreshTimer = scheduleTokenRefresh(stored, NoRefreshTimer, now)

\* ------------------------------------------- S3Provider reducer (S3Context)
\* a bucket name is "" when cleared in the header and NoBucket when null
NoBucket == "null"
Buckets == {"images"}
EnvBuckets == {"", "env-images"}
Falsy(value) == value \in {NoBucket, ""}
\* entity tags of the tracked object; NoEtag is null / undefined
Etags == {"e1", "e2"}
NoEtag == "null"
NoS3Error == "null"

\* lastUpdated holds "set" for any Date
s3InitialState ==
    [images |-> <<>>, loading |-> FALSE, error |-> NoS3Error, lastUpdated |-> "null",
     selectedBucket |-> NoBucket, availableBuckets |-> <<>>, hasMore |-> FALSE,
     refreshing |-> FALSE, lastRefreshTime |-> "null", lastImageEtag |-> NoEtag]

s3Reducer(st, action) ==
    CASE action.type = "SET_LOADING" -> [st EXCEPT !.loading = action.payload]
      [] action.type = "SET_REFRESHING" -> [st EXCEPT !.refreshing = action.payload]
      [] action.type = "SET_ERROR" ->
            [st EXCEPT !.error = action.payload, !.loading = FALSE, !.refreshing = FALSE]
      [] action.type = "SET_IMAGES" ->
            [st EXCEPT !.images = action.payload.images,
                       !.hasMore = action.payload.hasMore,
                       !.loading = FALSE, !.refreshing = FALSE, !.error = NoS3Error,
                       !.lastImageEtag = IF action.payload.images = <<>>
                                         THEN NoEtag
                                         ELSE action.payload.images[1].etag]
      [] action.type = "SET_BUCKETS" -> [st EXCEPT !.availableBuckets = action.payload]
      [] action.type = "SET_SELECTED_BUCKET" -> [st EXCEPT !.selectedBucket = action.payload]
      [] action.type = "UPDATE_LAST_UPDATED" -> [st EXCEPT !.lastUpdated = "set"]
      [] action.type = "RESET_STATE" -> s3InitialState
      [] OTHER -> st

\* the reducer applied to the dispatches of one synchronous stretch, in order
RECURSIVE s3ReduceAll(_, _)
s3ReduceAll(st, actions) ==
    IF actions = <<>> THEN st
    ELSE s3ReduceAll(s3Reducer(st, Head(actions)), Tail(actions))

S3Do(type, payload) == [type |-> type, payload |-> payload]

\* ----------------------------------------------------------- RealS3Service
\* the answers of the object store to HeadObject and GetObject: name is "ok" or the
\* name of the error thrown; an "ok" answer without ETag / LastModified has NoEtag
S3ErrorNames == {"NoSuchKey", "NotFound", "AccessDenied", "NetworkError"}
S3Responses ==
    [name : {"ok"}, etag : Etags \cup {NoEtag}] \cup [name : S3ErrorNames, etag : {NoEtag}]

\* createS3Error
createS3Error(name, message) == [code |-> name, message |-> message]
NoS3Failure == [code |-> "", message |-> ""]

\* getLatestImageMetadata after `await this.s3Client.send(command)`: the metadata
\* returned (NoEtag for null) or the error thrown
getLatestImageMetadataRethrowsAll(response) ==
    IF response.name = "ok"
    THEN [threw |-> FALSE, etag |-> response.etag, error |-> NoS3Failure]
    ELSE [threw |-> TRUE, etag |-> NoEtag,
          error |-> createS3Error(response.name, "Failed to get image metadata")]

getLatestImageMetadata(response) ==
    IF response.name = "ok"
    THEN [threw |-> FALSE, etag |-> response.etag, error |-> NoS3Failure]
    ELSE IF response.name \in {"NoSuchKey", "NotFound"}
    THEN [threw |-> FALSE, etag |-> NoEtag, error |-> NoS3Failure]
    ELSE [threw |-> TRUE, etag |-> NoEtag,
          error |-> createS3Error(response.name, "Failed to get image metadata")]

\* listImages after `await this.s3Client.send(command)` and the signing of the URL
\* (signed: getSignedUrl resolved): the result returned or the error thrown
listImagesRethrowsAll(response, signed) ==
    IF response.name = "ok"
    THEN IF response.etag = NoEtag
         THEN [threw |-> FALSE, objects |-> <<>>, isTruncated |-> FALSE, totalCount |-> 0,
               error |-> NoS3Failure]
         ELSE IF signed
         THEN [threw |-> FALSE, objects |-> <<[etag |-> response.etag]>>,
               isTruncated |-> FALSE, totalCount |-> 1, error |-> NoS3Failure]
         ELSE [threw |-> TRUE, objects |-> <<>>, isTruncated |-> FALSE, totalCount |-> 0,
               error |-> createS3Error("S3Error", "Failed to fetch latest image from S3")]
    ELSE [threw |-> TRUE, objects |-> <<>>, isTruncated |-> FALSE, totalCount |-> 0,
          error |-> createS3Error(response.name, "Failed to fetch latest image from S3")]

listImages(response, signed) ==
    IF response.name = "ok"
    THEN IF response.etag = NoEtag
         THEN [threw |-> FALSE, objects |-> <<>>, isTruncated |-> FALSE, totalCount |-> 0,
               error |-> NoS3Failure]
         ELSE IF signed
         THEN [threw |-> FALSE, objects |-> <<[etag |-> response.etag]>>,
               isTruncated |-> FALSE, totalCount |-> 1, error |-> NoS3Failure]
         ELSE [threw |-> TRUE, objects |-> <<>>, isTruncated |-> FALSE, totalCount |-> 0,
               error |-> createS3Error("S3Error", "Failed to fetch latest image from S3")]
    ELSE IF response.name = "NoSuchKey"
    THEN [threw |-> FALSE, objects |-> <<>>, isTruncated |-> FALSE, totalCount |-> 0,
          error |-> NoS3Failure]
    ELSE [threw |-> TRUE, objects |-> <<>>, isTruncated |-> FALSE, totalCount |-> 0,
          error |-> createS3Error(response.name, "Failed to fetch latest image from S3")]

\* -------------------------------------------------------------- S3Provider
NoAws == [isAuthenticated |-> FALSE, credentials |-> FALSE]
NoInterval == [bucket |-> NoBucket, etag |-> NoEtag]
NoS3Response ==
    [op |-> "none", response |-> [name |-> "", etag |-> NoEtag],
     result |-> [threw |-> FALSE], fetched |-> FALSE]
minRefreshInterval == 5000

\* the dispatches of loadBuckets, and of reset in its place, in the first effect
loadBuckets(st, a) ==
    IF a.isAuthenticated /\ a.credentials
    THEN IF envBucket # "" /\ Falsy(st.selectedBucket)
         THEN <<S3Do("SET_SELECTED_BUCKET", envBucket)>>
         ELSE <<>>
    ELSE <<S3Do("RESET_STATE", "")>>

\* loadImages up to `await realS3Service.listImages(...)`, for the render whose
\* loadImages it is: whether the request is sent, and the dispatches before it
loadImagesSends(a, targetBucket) ==
    a.isAuthenticated /\ a.credentials /\ ~Falsy(targetBucket)

loadImages(a, targetBucket, showLoading) ==
    IF ~loadImagesSends(a, targetBucket)
    THEN <<S3Do("SET_ERROR", IF Falsy(targetBucket) THEN "No bucket selected"
                             ELSE "Authentication required")>>
    ELSE <<S3Do(IF showLoading THEN "SET_LOADING" ELSE "SET_REFRESHING", TRUE),
           S3Do("SET_ERROR", NoS3Error)>>

\* loadImages after `await realS3Service.listImages(...)`
loadImagesSettles(result) ==
    IF result.threw
    THEN <<S3Do("SET_ERROR", "Failed to load images")>>
    ELSE <<S3Do("SET_IMAGES", [images |-> result.objects, hasMore |-> result.isTruncated]),
           S3Do("UPDATE_LAST_UPDATED", "")>>

\* the first two effects, run after each render in which one of isAuthenticated,
\* credentials and selectedBucket differs from the render before, until a render
\* changes none: the final state and the buckets whose images were requested
RECURSIVE runEffects(_, _, _, _, _)
runEffects(prevState, prevAws, st, a, sent) ==
    IF prevAws = a /\ prevState.selectedBucket = st.selectedBucket
    THEN [state |-> st, sent |-> sent]
    ELSE LET loads == ~Falsy(st.selectedBucket) /\ a.isAuthenticated
             dispatches == loadBuckets(st, a) \o
                           (IF loads THEN loadImages(a, st.selectedBucket, TRUE) ELSE <<>>)
         IN  runEffects(st, a, s3ReduceAll(st, dispatches), a,
                        IF loads /\ loadImagesSends(a, st.selectedBucket)
                        THEN Append(sent, st.selectedBucket) ELSE sent)

\* the polling effect: the interval it leaves behind for a render
pollingEffect(st, a) ==
    IF Falsy(st.selectedBucket) \/ ~a.isAuthenticated \/ ~a.credentials
    THEN NoInterval
    ELSE [bucket |-> st.selectedBucket, etag |-> st.lastImageEtag]

\* the number of the suspended calls that are at the request pc
CallsAt(calls, pc) ==
    BagCardinality([call \in {c \in BagToSet(calls) : c.pc = pc} |-> calls[call]])

\* calls with one more / one fewer suspended call
CallStarts(calls, call) == calls (+) SetToBag({call})
CallEnds(calls, call) == calls (-) SetToBag({call})

LoadCall(bucket) == [kind |-> "load", pc |-> "get", bucket |-> bucket, etag |-> NoEtag]

\* the provider renders with state st and hook result a, and its effects run; calls
\* are the suspended calls the handler leaves
Render(st, a, calls) ==
    LET r == runEffects(s3State, aws, st, a, <<>>)
    IN  /\ s3State' = r.state
        /\ aws' = a
        /\ pollInterval' = pollingEffect(r.state, a)
        /\ s3Calls' = calls (+) SetToBag({LoadCall(r.sent[i]) : i \in DOMAIN r.sent})

\* the AuthProvider's state changes what useAuthenticatedAWS returns
AuthChanges(authenticated, credentials) ==
    /\ credentials => authenticated
    /\ aws # [isAuthenticated |-> authenticated, credentials |-> credentials]
    /\ CallsAt(s3Calls, "get") < MaxS3Calls
    /\ Render(s3State, [isAuthenticated |-> authenticated, credentials |-> credentials],
              s3Calls)
    /\ UNCHANGED <<envBucket, lastS3Response, nonS3Vars>>

selectBucket(bucketName) ==
    /\ CallsAt(s3Calls, "get") < MaxS3Calls
    /\ Render(s3Reducer(s3State, S3Do("SET_SELECTED_BUCKET", bucketName)), aws, s3Calls)
    /\ UNCHANGED <<envBucket, lastS3Response, nonS3Vars>>

\* refreshImages, timeSinceLastRefresh ms after state.lastRefreshTime when that is set
refreshImages(timeSinceLastRefresh) ==
    /\ CallsAt(s3Calls, "get") < MaxS3Calls
    /\ IF s3State.lastRefreshTime # "null" /\ timeSinceLastRefresh < minRefreshInterval
       THEN UNCHANGED <<s3State, aws, pollInterval, s3Calls>>
       ELSE Render(s3ReduceAll(s3State, <<S3Do("UPDATE_LAST_UPDATED", "")>> \o
                                         loadImages(aws, s3State.selectedBucket, FALSE)),
                   aws,
                   IF loadImagesSends(aws, s3State.selectedBucket)
                   THEN CallStarts(s3Calls, LoadCall(s3State.selectedBucket))
                   ELSE s3Calls)
    /\ UNCHANGED <<envBucket, lastS3Response, nonS3Vars>>

\* the interval fires: the callback up to `await getLatestImageMetadata(...)`
PollTick ==
    /\ pollInterval # NoInterval
    /\ CallsAt(s3Calls, "head") < MaxTicks
    /\ s3Calls' = CallStarts(s3Calls, [kind |-> "tick", pc |-> "head",
                                       bucket |-> pollInterval.bucket,
                                       etag |-> pollInterval.etag])
    /\ UNCHANGED <<s3State, aws, envBucket, pollInterval, lastS3Response, nonS3Vars>>

\* the tick's metadata differs from the fingerprint its callback closes over
tickFetches(call, metadata) ==
    ~metadata.threw /\ metadata.etag # NoEtag /\ metadata.etag # call.etag

\* the callback after `await getLatestImageMetadata(...)`: on a changed fingerprint the
\* loadImages of its render runs up to its request; an error is caught and logged
HeadResponseStops(call, response) ==
    /\ call \in BagToSet(s3Calls)
    /\ call.pc = "head"
    /\ LET metadata == getLatestImageMetadata(response)
           fetches == tickFetches(call, metadata)
       IN  /\ fetches => CallsAt(s3Calls, "get") < MaxS3Calls
           /\ lastS3Response' = [op |-> "head", response |-> response,
                                 result |-> metadata, fetched |-> fetches]
           /\ IF fetches
              THEN Render(s3ReduceAll(s3State, loadImages([isAuthenticated |-> TRUE,
                                                           credentials |-> TRUE],
                                                          call.bucket, FALSE)),
                          aws, CallStarts(CallEnds(s3Calls, call),
                                          [call EXCEPT !.pc = "get"]))
              ELSE /\ s3Calls' = CallEnds(s3Calls, call)
                   /\ pollInterval' = IF metadata.threw THEN NoInterval ELSE pollInterval
                   /\ UNCHANGED <<s3State, aws>>
    /\ UNCHANGED <<envBucket, nonS3Vars>>

HeadResponse(call, response) ==
    /\ call \in BagToSet(s3Calls)
    /\ call.pc = "head"
    /\ LET metadata == getLatestImageMetadata(response)
           fetches == tickFetches(call, metadata)
       IN  /\ fetches => CallsAt(s3Calls, "get") < MaxS3Calls
           /\ lastS3Response' = [op |-> "head", response |-> response,
                                 result |-> metadata, fetched |-> fetches]
           /\ IF fetches
              THEN Render(s3ReduceAll(s3State, loadImages([isAuthenticated |-> TRUE,
                                                           credentials |-> TRUE],
                                                          call.bucket, FALSE)),
                          aws, CallStarts(CallEnds(s3Calls, call),
                                          [call EXCEPT !.pc = "get"]))
              ELSE /\ s3Calls' = CallEnds(s3Calls, call)
                   /\ UNCHANGED <<s3State, aws, pollInterval>>
    /\ UNCHANGED <<envBucket, nonS3Vars>>

\* loadImages after `await realS3Service.listImages(...)`
GetResponse(call, response, signed) ==
    /\ call \in BagToSet(s3Calls)
    /\ call.pc = "get"
    /\ lastS3Response' = [op |-> "get", response |-> response,
                          result |-> listImages(response, signed), fetched |-> FALSE]
    /\ Render(s3ReduceAll(s3State, loadImagesSettles(listImages(response, signed))),
              aws, CallEnds(s3Calls, call))
    /\ UNCHANGED <<envBucket, nonS3Vars>>

\* the provider as mounted, before the user is authenticated
S3Mounted(bucket) ==
    /\ s3State = s3InitialState
    /\ aws = NoAws
    /\ envBucket = bucket
    /\ pollInterval = NoInterval
    /\ s3Calls = EmptyBag
    /\ lastS3Response = NoS3Response

\* the service as constructed (field initialisers, lines 11-25)
ServiceInit ==
    /\ connectionStatus = DISCONNECTED
    /\ isConnecting = FALSE
    /\ manualDisconnect = FALSE
    /\ reconnectAttempts = 0
    /\ reconnectTimeout = NoTimer
    /\ connection = NoConnection
    /\ currentTopic = ""
    /\ messageCallbacks = <<>>
    /\ statusCallbacks = <<>>
    /\ credsPending = [t \in Topics |-> 0]
    /\ conns = <<>>
    /\ discCalls = [unsub |-> 0, disc |-> 0]
    /\ subInFlight = 0
    /\ welcomePending = 0
    /\ connectCalls = 0
    /\ guardedCall = FALSE
    /\ lastPublish = NoPublish
    /\ lastFanout = [invoked |-> <<>>, threw |-> FALSE]
    /\ steps = 0
    /\ endpoint = ""
    /\ initializeCalls = 0
    /\ lastInitialize = NoInitialize

\* the providers as mounted
ContextInit ==
    /\ mqttState = mqttInitialState
    /\ delivered = 0
    /\ providerCalls = NoProviderCalls
    /\ authCtx = authInitialState
    /\ authCalls = NoAuthCalls
    /\ discoveryCache = NoCache
    /\ discoveryCredentials = NoUser
    /\ lastCurrentUser = NoCurrentUserCall

\* the application loaded in a browser that holds no stored session
Init ==
    /\ ServiceInit
    /\ ContextInit
    /\ loadStoredSession(NoSession)
    /\ S3Mounted("")

\* the application loaded in a browser that may hold a stored session
InitAuth ==
    /\ ServiceInit
    /\ ContextInit
    /\ \E stored \in Sessions \cup {NoSession} : loadStoredSession(stored)
    /\ S3Mounted("")

\* the application built with or without a bucket name in its environment
InitS3 ==
    /\ ServiceInit
    /\ ContextInit
    /\ loadStoredSession(NoSession)
    /\ \E bucket \in EnvBuckets : S3Mounted(bucket)

Next ==
    \/ \E t \in Topics : Connect(t)
    \/ ReconnectTimerFires
    \/ \E t \in Topics, ok \in BOOLEAN : ConnectResume(t, ok)
    \/ \E c \in ConnIds : OnConnect(c)
    \/ \E c \in ConnIds : ConnectResolved(c)
    \/ \E c \in ConnIds : ConnectRejected(c)
    \/ \E c \in ConnIds : WatchdogFires(c)
    \/ \E c \in ConnIds : SubscribeDelayFires(c)
    \/ \E ok \in BOOLEAN : SubscribeSettles(ok)
    \/ WelcomeTimerFires
    \/ \E c \in ConnIds : OnInterrupt(c)
    \/ \E c \in ConnIds : OnResume(c)
    \/ \E c \in ConnIds : OnDisconnect(c)
    \/ \E c \in ConnIds : GraceTimerFires(c)
    \/ \E c \in ConnIds, e \in TransportErrors : OnError(c, e)
    \/ Disconnect
    \/ \E ok \in BOOLEAN : UnsubscribeSettles(ok)
    \/ \E ok \in BOOLEAN : DisconnectSettles(ok)

Spec == Init /\ [][Next]_vars

\* the observer registry and the two fan-outs
NextFanout ==
    \/ \E o \in Observers : onMessage(o)
    \/ \E o \in Observers : onStatusChange(o)
    \/ \E o \in Observers : removeMessageCallback(o)
    \/ \E o \in Observers : removeStatusCallback(o)
    \/ notifyMessageCallbacks
    \/ \E status \in ConnectionStatus : StatusChanges(status)

SpecFanout == Init /\ [][NextFanout]_vars

\* the life of a session as time passes: mount, sign-in, sign-out, token refresh
NextSession ==
    \/ initializeAuth
    \/ initializeAuthResume
    \/ \E response \in WarmUpResponses : initializeAuthDiscovered(response)
    \/ \E u \in Users : signIn(u)
    \/ \E response \in SignInResponses : signInResponse(response)
    \/ \E ok, hasRefreshToken \in BOOLEAN, expiresIn \in ExpiresInValues :
            signInUserFetched(ok, hasRefreshToken, expiresIn)
    \/ \E response \in WarmUpResponses : signInDiscovered(response)
    \/ \E policy \in PolicyOutcomes : signInReturns(policy)
    \/ signOut
    \/ \E ok \in BOOLEAN : signOutResponse(ok)
    \/ signOutReturns
    \/ refreshTimerFires
    \/ \E response \in IdpResponses, expiresIn \in ExpiresInValues :
            refreshResponse(response, expiresIn)
    \/ Tick

SpecSession == InitAuth /\ [][NextSession]_vars

\* the DiscoveryService and its callers: the warm-ups of the AuthProvider and the
\* AuthService, sign-out, MqttService.initialize
NextDiscovery ==
    \/ initializeAuth
    \/ initializeAuthResume
    \/ \E response \in EndpointResponses : initializeAuthDiscovered(response)
    \/ \E u \in Users : signIn(u)
    \/ \E response \in {"AuthenticationResult", "NotAuthorizedException"} :
            signInResponse(response)
    \/ \E ok \in BOOLEAN : signInUserFetched(ok, FALSE, 0)
    \/ \E response \in EndpointResponses : signInDiscovered(response)
    \/ \E policy \in PolicyOutcomes : signInReturns(policy)
    \/ signOut
    \/ \E ok \in BOOLEAN : signOutResponse(ok)
    \/ signOutReturns
    \/ \E provided \in ProvidedEndpoints : initialize(provided)
    \/ \E response \in EndpointResponses : initializeAnswered(response)
    \/ checkCacheValid
    \/ Elapse

SpecDiscovery == InitS3 /\ [][NextDiscovery]_vars

\* the users who sign in at one browser, one after the other
BrowserUsers == {"alice", "bob"}

\* the credentials of the DiscoveryService across sessions: sign-in, sign-out, the
\* warm-ups, MqttService.initialize without an endpoint
NextCredentials ==
    \/ initializeAuth
    \/ initializeAuthResume
    \/ \E response \in WarmUpResponses : initializeAuthDiscovered(response)
    \/ \E u \in BrowserUsers : signIn(u)
    \/ \E response \in {"AuthenticationResult", "NotAuthorizedException"} :
            signInResponse(response)
    \/ \E ok \in BOOLEAN : signInUserFetched(ok, FALSE, 0)
    \/ \E response \in WarmUpResponses : signInDiscovered(response)
    \/ \E policy \in PolicyOutcomes : signInReturns(policy)
    \/ signOut
    \/ \E ok \in BOOLEAN : signOutResponse(ok)
    \/ signOutReturns
    \/ initialize("")
    \/ \E response \in WarmUpResponses : initializeAnswered(response)

SpecCredentials == Init /\ [][NextCredentials]_vars

\* the S3Provider, its poller and the object store
NextS3 ==
    \/ \E authenticated, credentials \in BOOLEAN : AuthChanges(authenticated, credentials)
    \/ \E b \in Buckets \cup {""} : selectBucket(b)
    \/ \E t \in {1000, 5000} : refreshImages(t)
    \/ PollTick
    \/ \E call \in BagToSet(s3Calls), response \in S3Responses :
            HeadResponse(call, response)
    \/ \E call \in BagToSet(s3Calls), response \in S3Responses :
            \E signed \in IF response.name = "ok" /\ response.etag # NoEtag
                           THEN BOOLEAN ELSE {TRUE} :
                GetResponse(call, response, signed)

SpecS3 == InitS3 /\ [][NextS3]_vars

\* the poller as scheduled: an interval that stays in place fires
SpecS3Live ==
    /\ SpecS3
    /\ WF_vars(PollTick)

\* the MqttProvider driven by its observers and its actions
NextReducer ==
    \/ handleMessage
    \/ \E status \in ConnectionStatus : handleStatusChange(status)
    \/ clearMessages
    \/ clearError
    \/ reset

SpecReducer == Init /\ [][NextReducer]_vars

\* the AuthProvider and the AuthService within one instant of the clock
NextAuth ==
    \/ initializeAuth
    \/ initializeAuthResume
    \/ \E response \in WarmUpResponses : initializeAuthDiscovered(response)
    \/ \E u \in Users : signIn(u)
    \/ \E response \in SignInResponses : signInResponse(response)
    \/ \E ok, hasRefreshToken \in BOOLEAN, expiresIn \in ExpiresInValues :
            signInUserFetched(ok, hasRefreshToken, expiresIn)
    \/ \E response \in WarmUpResponses : signInDiscovered(response)
    \/ \E policy \in PolicyOutcomes : signInReturns(policy)
    \/ signOut
    \/ \E ok \in BOOLEAN : signOutResponse(ok)
    \/ signOutReturns
    \/ completeNewPassword
    \/ \E response \in IdpResponses : completeNewPasswordResponse(response)
    \/ \E ok, hasRefreshToken \in BOOLEAN, u \in Users, expiresIn \in ExpiresInValues :
            completeNewPasswordUserFetched(ok, u, hasRefreshToken, expiresIn)
    \/ \E policy \in PolicyOutcomes : completeNewPasswordReturns(policy)
    \/ clearAuthError

SpecAuth == InitAuth /\ [][NextAuth]_vars

\* the service with publishMessage calls
NextPublish ==
    \/ Next
    \/ \E ok \in BOOLEAN : PublishMessage(ok)

SpecPublish == Init /\ [][NextPublish]_vars

\* the application loaded by a user whose stored session is still valid
InitProvider ==
    /\ ServiceInit
    /\ ContextInit
    /\ loadStoredSession([user |-> "alice", refreshToken |-> FALSE,
                          expiresAt |-> MaxStoredExpiry])
    /\ S3Mounted("")

\* topics entered in the connect form; "" is a form left blank
ProviderTopics == Topics \cup {""}

\* no continuation of the context's disconnect is waiting: such a continuation is a
\* microtask and runs before any other callback
Turn == ~providerDisconnectResumable

\* the MqttProvider under an AuthProvider that restores the session, and the events of
\* the service: a message is received, a timer fires, the transport answers
NextProvider ==
    \/ providerDisconnectReturns
    \/ Turn /\ initializeAuth
    \/ Turn /\ initializeAuthResume
    \/ Turn /\ \E response \in WarmUpResponses : initializeAuthDiscovered(response)
    \/ Turn /\ \E t \in ProviderTopics : providerConnect(t)
    \/ Turn /\ \E response \in WarmUpResponses : providerConnectInitialized(response)
    \/ Turn /\ \E ok \in BOOLEAN : providerConnectResumes(ok)
    \/ Turn /\ providerDisconnect
    \/ Turn /\ ReconnectTimerFires
    \/ Turn /\ \E t \in Topics, ok \in BOOLEAN :
                    credsPending[t] > providerPending(t) /\ ConnectResume(t, ok)
    \/ Turn /\ \E c \in ConnIds : OnConnect(c)
    \/ Turn /\ \E c \in ConnIds : ConnectResolved(c)
    \/ Turn /\ \E c \in ConnIds : ConnectRejected(c)
    \/ Turn /\ \E c \in ConnIds : WatchdogFires(c)
    \/ Turn /\ \E c \in ConnIds : SubscribeDelayFires(c)
    \/ Turn /\ \E ok \in BOOLEAN : SubscribeSettles(ok)
    \/ Turn /\ WelcomeTimerFires
    \/ Turn /\ messageReceived
    \/ Turn /\ \E c \in ConnIds : OnInterrupt(c)
    \/ Turn /\ \E c \in ConnIds : OnResume(c)
    \/ Turn /\ \E c \in ConnIds : OnDisconnect(c)
    \/ Turn /\ \E c \in ConnIds : GraceTimerFires(c)
    \/ Turn /\ \E c \in ConnIds, e \in TransportErrors : OnError(c, e)
    \/ Turn /\ \E ok \in BOOLEAN : UnsubscribeSettles(ok)
    \/ Turn /\ \E ok \in BOOLEAN : DisconnectSettles(ok)

SpecProvider == InitProvider /\ [][NextProvider]_vars

\* C1: when connect(topic) is called a second time while the first call is in progress
\* (status Connecting), the two calls create exactly one transport connection and
\* issue exactly one subscribe call
C1_SecondConnectIsNoOp ==
    (connectCalls = 2 /\ guardedCall)
        => (Len(conns) + credsPending["cv/detections"] <= 1 /\ SubscribeCalls <= 1)

\* C2: for one connect attempt the subscribe call is issued at most once, whichever of
\* the 'connect' event, the connect() promise and the watchdog fire, in whatever order
C2_SubscribeAtMostOncePerAttempt ==
    \A c \in ConnIds : conns[c].subBy <= 1

\* C3: once the reconnect attempts are used up with no successful connect in between,
\* a further non-manual disconnect leaves the status Error with no reconnect timer
\* pending, so that no automatic connect attempt follows
C3_ErrorAtCapLeavesNoTimer ==
    [][ ((\E c \in ConnIds : OnDisconnect(c))
            /\ ~manualDisconnect /\ reconnectAttempts >= maxReconnectAttempts)
        => (connectionStatus' = ERROR /\ reconnectTimeout' = NoTimer) ]_vars

\* a disconnect() call returns in this step
DisconnectReturns ==
    \/ Disconnect /\ connection = NoConnection
    \/ \E ok \in BOOLEAN : UnsubscribeSettles(ok) /\ discCalls'.disc = discCalls.disc
    \/ \E ok \in BOOLEAN : DisconnectSettles(ok)

\* C4: every disconnect() call ends with the status Disconnected, whatever the state
\* it started in and whether or not unsubscribe or the transport disconnect threw
C4_DisconnectEndsDisconnected ==
    [][ DisconnectReturns => connectionStatus' = DISCONNECTED ]_vars

\* a disconnect() call whose unsubscribe threw has returned: the connection acknowledged
\* by the transport is still referenced, open and not interrupted, and the status is
\* Disconnected
C4_Witness ==
    /\ manualDisconnect /\ connectCalls = 1
    /\ discCalls = [unsub |-> 0, disc |-> 0]
    /\ connection # NoConnection
    /\ conns[1].acked /\ ~conns[1].closed /\ ~conns[1].interrupted
    /\ connectionStatus = DISCONNECTED

\* C5: from a disconnect() call until the next connect() call that starts an attempt,
\* no reconnect timer is pending: the pending one is cancelled and no 'disconnect'
\* event, 'error' event or grace timer schedules another
C5_NoReconnectAfterManualDisconnect ==
    manualDisconnect => reconnectTimeout = NoTimer

\* after a completed disconnect() the transport reported an error: the status is Error,
\* set by the 'error' handler, and no reconnect was scheduled
C5_Witness ==
    /\ manualDisconnect
    /\ discCalls = [unsub |-> 0, disc |-> 0]
    /\ credsPending["cv/detections"] = 0 /\ subInFlight = 0
    /\ Len(conns) = 1 /\ conns[1].errors = 1 /\ conns[1].promise = "pending"
    /\ connectionStatus = ERROR
    /\ reconnectTimeout = NoTimer

\* the error's code (its name when it has no code) or its message holds a word of the
\* non-retryable denylist
OnDenylist(error) ==
    \E word \in {"ENOTFOUND", "ECONNREFUSED", "UNAUTHORIZED", "FORBIDDEN",
                 "InvalidSignatureException", "SignatureDoesNotMatchException",
                 "TokenRefreshRequiredException", "AccessDeniedException"} :
        \/ Includes(IF error.code # <<>> THEN error.code ELSE error.name, word)
        \/ Includes(error.message, word)

\* the handler scheduled a reconnect in this step
ReconnectScheduled ==
    /\ reconnectTimeout' # NoTimer
    /\ reconnectAttempts' = reconnectAttempts + 1
    /\ connectionStatus' = RECONNECTING

\* C6 as stated: a denylisted transport error sets the status Error and schedules no
\* reconnect; every other error, with no manual disconnect, schedules a reconnect
C6_EveryOtherErrorSchedules ==
    [][ \A c \in ConnIds, e \in TransportErrors :
            (conns'[c].errors # conns[c].errors /\ OnError(c, e)) =>
                IF OnDenylist(e)
                THEN connectionStatus' = ERROR
                     /\ UNCHANGED <<reconnectTimeout, reconnectAttempts>>
                ELSE manualDisconnect \/ ReconnectScheduled ]_vars

\* C6 amended: a denylisted transport error sets the status Error and schedules no
\* reconnect; every other error, with no manual disconnect, schedules a reconnect
\* while fewer than maxReconnectAttempts attempts are counted, and at the cap sets
\* the status Error and schedules nothing
C6_OtherErrorsScheduleBelowCap ==
    [][ \A c \in ConnIds, e \in TransportErrors :
            (conns'[c].errors # conns[c].errors /\ OnError(c, e)) =>
                IF OnDenylist(e) \/ manualDisconnect
                    \/ reconnectAttempts >= maxReconnectAttempts
                THEN connectionStatus' = ERROR
                     /\ UNCHANGED <<reconnectTimeout, reconnectAttempts>>
                ELSE ReconnectScheduled ]_vars

\* reconnects were scheduled up to the cap, and then the 'error' handler took an error
\* with the manual flag clear for which nothing was scheduled: the status is Error
C6_Witness ==
    /\ connectionStatus = ERROR
    /\ reconnectAttempts = maxReconnectAttempts
    /\ ~manualDisconnect
    /\ \E c \in ConnIds : conns[c].errors >= 2 /\ ~conns[c].closed

\* C7: publishMessage reaches the transport only when the status is Connected and a
\* connection exists; otherwise it fails with the not-connected error, sends nothing
\* and leaves the status as it was
C7_PublishOnlyWhenConnected ==
    [][ \A ok \in BOOLEAN :
            PublishMessage(ok) =>
                IF connection # NoConnection /\ connectionStatus = CONNECTED
                THEN lastPublish'.sent
                ELSE /\ lastPublish' = [error |-> "MQTT not connected", sent |-> FALSE]
                     /\ connectionStatus' = connectionStatus ]_vars

\* a publish was refused while a connection existed whose status was not Connected
C7_Witness ==
    /\ lastPublish = [error |-> "MQTT not connected", sent |-> FALSE]
    /\ connection # NoConnection
    /\ connectionStatus = CONNECTING

\* C8: a fan-out of a message or of a status change invokes every registered observer,
\* in registration order, also those registered after one that throws, and the throw
\* does not reach the caller of the fan-out
C8_FanoutReachesEveryObserver ==
    [][ /\ notifyMessageCallbacks
            => lastFanout' = [invoked |-> messageCallbacks, threw |-> FALSE]
        /\ (\E status \in ConnectionStatus : StatusChanges(status))
            => lastFanout' = [invoked |-> statusCallbacks, threw |-> FALSE] ]_vars

\* the latest fan-out invoked an observer that throws and went on to a later one
C8_Witness ==
    /\ ~lastFanout.threw
    /\ \E i \in 1..Len(lastFanout.invoked) :
            Throws(lastFanout.invoked[i]) /\ i < Len(lastFanout.invoked)

\* C9: adding a message puts it at the head of the provider's list, keeps the earlier
\* ones in order behind it up to 100 entries in all, so that a full list loses its
\* oldest entry, and raises messageCount by one
C9_MessagesCappedNewestFirst ==
    [][ handleMessage =>
            /\ Len(mqttState'.messages)
                    = IF Len(mqttState.messages) < 100 THEN Len(mqttState.messages) + 1
                      ELSE 100
            /\ mqttState'.messages[1] = delivered'
            /\ \A i \in 2..Len(mqttState'.messages) :
                    mqttState'.messages[i] = mqttState.messages[i - 1]
            /\ mqttState'.messageCount = mqttState.messageCount + 1 ]_vars

\* 101 messages were added to an empty list: it holds the latest 100, the first is gone
C9_Witness ==
    /\ mqttState.messageCount = 101
    /\ Len(mqttState.messages) = 100
    /\ mqttState.messages[1] = delivered
    /\ mqttState.messages[100] = delivered - 99

\* C10: when the identity provider rejects a sign-in, the provider's state after the
\* rejection is handled is Unauthenticated with a non-null error
C10_RejectedSignInKeepsError ==
    [][ \A response \in SignInRejections :
            signInResponse(response) =>
                /\ authCtx'.authState = UNAUTHENTICATED
                /\ authCtx'.error # NoAuthError ]_vars

\* C11: getCurrentUser never returns the principal of a session whose expiresAt is at
\* or before the current time; finding such a session it clears the in-memory
\* session, the persisted entry and the refresh timer
C11_ExpiredSessionIsClearedNotReturned ==
    [][ initializeAuth =>
            /\ lastCurrentUser'.returned # "null" => now < currentSession.expiresAt
            /\ (currentSession # NoSession /\ now >= currentSession.expiresAt) =>
                    /\ lastCurrentUser'.returned = "null"
                    /\ currentSession' = NoSession
                    /\ storedSession' = NoSession
                    /\ refreshTimer' = NoRefreshTimer ]_vars

\* C11: getCurrentUser was called on a session that had expired and returned null
C11_Witness ==
    /\ lastCurrentUser.called
    /\ lastCurrentUser.session # NoSession
    /\ lastCurrentUser.at >= lastCurrentUser.session.expiresAt
    /\ lastCurrentUser.returned = "null"

\* the local state signOut is to leave behind
SignedOutLocally ==
    /\ currentSession = NoSession
    /\ storedSession = NoSession
    /\ refreshTimer = NoRefreshTimer
    /\ discoveryCache = NoCache

\* C12: signOut clears the in-memory session, the persisted entry, the refresh timer
\* and the discovery cache whether the server-side sign-out succeeds or fails, and the
\* caller's call then ends Unauthenticated without an error
C12_SignOutClearsWhateverTheServerSays ==
    [][ /\ \A ok \in BOOLEAN : signOutResponse(ok) => SignedOutLocally'
        /\ (signOut /\ authCalls'.signOut = "return") => SignedOutLocally'
        /\ signOutReturns =>
                (authCtx'.authState = UNAUTHENTICATED /\ authCtx'.error = NoAuthError) ]_vars

\* C12: the server-side sign-out of a signed-in user failed and the local state is
\* cleared
C12_Witness ==
    /\ authCalls.signOut = "caught"
    /\ authCtx.user # NoUser
    /\ SignedOutLocally

C14_FailedRefreshClearsAndIsNotRetried ==
    authCalls.refreshFailed =>
        /\ currentSession = NoSession
        /\ storedSession = NoSession
        /\ refreshTimer = NoRefreshTimer
        /\ ~isAuthenticated(currentSession, now)

\* C14: the refresh request of a stored session failed and none is in flight
C14_Witness ==
    /\ authCalls.refreshFailed
    /\ authCalls.refresh = 0
    /\ currentSession = NoSession
    /\ refreshTimer = NoRefreshTimer

\* the step answers a metadata request / a GetObject request
HeadAnswered == CallsAt(s3Calls', "head") < CallsAt(s3Calls, "head")
GetAnswered == CallsAt(s3Calls', "get") < CallsAt(s3Calls, "get")
\* the number of the suspended calls that are poll ticks gone on to fetch
TickFetches(calls) ==
    BagCardinality([call \in {c \in BagToSet(calls) : c.pc = "get" /\ c.kind = "tick"}
                        |-> calls[call]])

\* C15: a poll tick whose metadata request returns the fingerprint the provider holds
\* as last known (lastImageEtag) triggers no fetch
C15_UnchangedFingerprintNeverFetches ==
    [][ ( /\ HeadAnswered
          /\ lastS3Response'.response.name = "ok"
          /\ lastS3Response'.response.etag = s3State.lastImageEtag ) =>
            ~lastS3Response'.fetched ]_vars

\* the polling effect's condition holds: a bucket is selected and the user is
\* authenticated
PollerWanted == ~Falsy(s3State.selectedBucket) /\ aws.isAuthenticated
\* the latest answer of the object store failed a poll tick at its metadata request
TickFailed == lastS3Response.op = "head" /\ lastS3Response.result.threw
\* a poll tick is suspended at its metadata request
TickPending == CallsAt(s3Calls, "head") > 0

\* C16: while a bucket is selected and the user is authenticated, a poll tick whose
\* metadata request or fetch throws leaves the interval in place, and once the failed
\* tick is over a further tick starts unless the bucket or the user goes away
C16_FailedTickKeepsPolling ==
    /\ [][ ( /\ PollerWanted
              /\ lastS3Response'.result.threw
              /\ \/ HeadAnswered
                 \/ GetAnswered /\ TickFetches(s3Calls') < TickFetches(s3Calls) ) =>
                (PollerWanted' /\ pollInterval' # NoInterval) ]_vars
    /\ (TickFailed /\ PollerWanted /\ ~TickPending) ~> (TickPending \/ ~PollerWanted)

\* C16: a poll tick failed at its metadata request, none is under way, and the
\* interval is in place
C16_Witness ==
    /\ TickFailed
    /\ PollerWanted
    /\ ~TickPending
    /\ pollInterval # NoInterval

\* C17: while the user is unauthenticated or no bucket is selected, no poll tick
\* starts and no tick under way goes on to fetch
C17_NoPollerRequestsWhenSuspended ==
    [][ (~aws.isAuthenticated \/ Falsy(s3State.selectedBucket)) =>
            /\ CallsAt(s3Calls', "head") <= CallsAt(s3Calls, "head")
            /\ TickFetches(s3Calls') <= TickFetches(s3Calls) ]_vars

\* C18: a manual refreshImages made less than 5 seconds after an earlier refresh
\* (lastUpdated holds its time) sends no request to the object store and leaves the
\* error as it was
C18_ManualRefreshIsThrottled ==
    [][ ( /\ s3State.lastUpdated # "null"
          /\ \E t \in {1000} : t < minRefreshInterval /\ refreshImages(t) ) =>
            (s3Calls' = s3Calls /\ s3State'.error = s3State.error) ]_vars

\* C19: when the object store answers a fetch with NoSuchKey, listImages returns the
\* empty result (no objects, totalCount 0) without throwing and the provider's state
\* has no images and no error afterwards
C19_MissingObjectFetchIsEmptyNotError ==
    [][ (GetAnswered /\ lastS3Response'.response.name = "NoSuchKey") =>
            /\ ~lastS3Response'.result.threw
            /\ lastS3Response'.result.objects = <<>>
            /\ lastS3Response'.result.totalCount = 0
            /\ s3State'.images = <<>>
            /\ s3State'.error = NoS3Error ]_vars

\* C19: a fetch was answered with NoSuchKey and the provider holds no images and no
\* error
C19_Witness ==
    /\ lastS3Response.op = "get"
    /\ lastS3Response.response.name = "NoSuchKey"
    /\ lastS3Response.result.totalCount = 0
    /\ s3State.images = <<>>
    /\ s3State.error = NoS3Error

\* C20: the metadata check answers a missing object (NotFound, NoSuchKey) with null
\* and throws nothing; every other failure of the request it throws as a storage
\* error that carries the failure's name
C20_MetadataCheckNullOnNotFoundElseThrows ==
    [][ HeadAnswered =>
            LET response == lastS3Response'.response
                metadata == lastS3Response'.result
            IN  /\ response.name \in {"NoSuchKey", "NotFound"} =>
                        (~metadata.threw /\ metadata.etag = NoEtag)
                /\ response.name \in S3ErrorNames \ {"NoSuchKey", "NotFound"} =>
                        /\ metadata.threw
                        /\ metadata.error =
                              createS3Error(response.name, "Failed to get image metadata")
      ]_vars

\* C20: a metadata request was answered with NotFound and the check returned null
C20_Witness ==
    /\ lastS3Response.op = "head"
    /\ lastS3Response.response.name = "NotFound"
    /\ ~lastS3Response.result.threw
    /\ lastS3Response.result.etag = NoEtag

\* what getCachedResults returns at once for the entry that setCachedResults leaves
\* for an endpoint and the bucket list of the environment
ReadBack(address) ==
    getCachedResults(setCachedResults(<<Prop("iotEndpoint", Str(address)),
                                        Prop("s3Buckets", Arr(discoverS3Buckets))>>, now),
                     now)

EndpointCached == cacheUsable(getCachedResults(discoveryCache, now))
\* the endpoint of that entry
CachedEndpoint == Get(getCachedResults(discoveryCache, now).value, "iotEndpoint").s

\* C22: MqttService.initialize without an endpoint takes the endpoint of an unexpired
\* cache entry and sends no request; an endpoint it looks up is afterwards in the
\* cache with an expiry one hour ahead
C22_EndpointResolvedThroughCache ==
    /\ [][ (EndpointCached /\ initialize("")) =>
                /\ initializeCalls' = initializeCalls
                /\ lastInitialize'.outcome = "resolved"
                /\ endpoint' = CachedEndpoint ]_vars
    /\ [][ (\E response \in EndpointResponses :
                endpointDiscovered(response) /\ initializeAnswered(response)) =>
                /\ EndpointCached'
                /\ CachedEndpoint' = endpoint'
                /\ Get(getCachedResults(discoveryCache', now').value, "expiresAt")
                        = Num(now' + CACHE_DURATION) ]_vars

\* the step is the end of AuthService.signOut, which calls clearCache
SignOutClearsCache ==
    authCalls.signOut \in {"idle", "send"} /\ authCalls'.signOut \in {"return", "caught"}
\* the step is a warm-up whose discovery succeeded storing its result
DiscoveryStores ==
    \/ authCalls.signIn.pc = "discover" /\ authCalls'.signIn.pc = "warmUp"
    \/ authCalls.init = "discover" /\ authCalls'.init = "done"

\* C23: a service with nothing cached reports an invalid cache; after clearCache the
\* cache is invalid whatever it held; an invalid cache becomes valid only by a
\* discovery that succeeds and stores its result
C23_ClearedCacheStaysInvalid ==
    /\ ~isCacheValid(discoveryCache, now)
    /\ [][ SignOutClearsCache => ~isCacheValid(discoveryCache', now') ]_vars
    /\ [][ (~isCacheValid(discoveryCache, now) /\ isCacheValid(discoveryCache', now')) =>
                DiscoveryStores ]_vars

\* C23: sign-out has cleared the cache within the hour of a discovery, and the cache
\* is invalid
C23_Witness ==
    /\ authCalls.signOut = "return"
    /\ discoveryCredentials # NoUser
    /\ now = 0
    /\ ~isCacheValid(discoveryCache, now)

\* C24: once AuthService.signIn or completeNewPassword has installed the session of a
\* successful exchange, the warm-up and the policy attachment, whatever their
\* outcome, leave the session in place and stored, and the call returns its
\* authenticated result: the provider becomes authenticated as the user, with no error
C24_SideChannelsNeverFailSignIn ==
    /\ [][ (authCalls.signIn.pc = "getUser" /\ authCalls'.signIn.pc \in {"discover", "warmUp"}) =>
                (currentSession' # NoSession /\ storedSession' = currentSession') ]_vars
    /\ [][ (authCalls.signIn.pc = "discover" /\ authCalls'.signIn # authCalls.signIn) =>
                /\ authCalls'.signIn.pc = "warmUp"
                /\ currentSession' = currentSession
                /\ storedSession' = storedSession ]_vars
    /\ [][ (authCalls.signIn.pc = "warmUp" /\ authCalls'.signIn # authCalls.signIn) =>
                /\ authCtx'.authState = AUTHENTICATED
                /\ authCtx'.user = authCalls.signIn.username
                /\ authCtx'.error = NoAuthError
                /\ currentSession' = currentSession
                /\ storedSession' = storedSession ]_vars
    /\ [][ (authCalls.newPassword.pc = "getUser" /\ authCalls'.newPassword.pc = "warmUp") =>
                (currentSession' # NoSession /\ storedSession' = currentSession') ]_vars
    /\ [][ (authCalls.newPassword.pc = "warmUp"
                /\ authCalls'.newPassword # authCalls.newPassword) =>
                /\ authCtx'.authState = AUTHENTICATED
                /\ authCtx'.user = authCalls.newPassword.username
                /\ authCtx'.error = NoAuthError
                /\ currentSession' = currentSession
                /\ storedSession' = storedSession ]_vars

\* C24: a sign-in or a challenge completion has returned (the session has the expiry
\* of a session installed now, later than any stored by an earlier visit) and the
\* provider is authenticated with the session stored, although no warm-up has
\* succeeded: the cache is empty
C24_Witness ==
    /\ authCalls.signIn = IdleCall
    /\ authCalls.newPassword = IdleCall
    /\ authCalls.signOut = "idle"
    /\ authCalls.init = "done"
    /\ authCtx.authState = AUTHENTICATED
    /\ currentSession.expiresAt = ExpiryOf(now, 0)
    /\ storedSession = currentSession
    /\ discoveryCache = NoCache

\* C25: a completeNewPassword made with a challenge pending that fails leaves the
\* provider in the challenge state with the challenge session it had
C25_FailedChallengeStaysInChallenge ==
    [][ ( /\ authCalls.newPassword.pc \in {"send", "getUser"}
          /\ authCalls'.newPassword = IdleCall
          /\ authCtx'.error.code = "NEW_PASSWORD_ERROR"
          /\ authCtx.challengeSession # NoChallenge ) =>
            /\ authCtx'.authState = CHALLENGE_REQUIRED
            /\ authCtx'.challengeSession = authCtx.challengeSession ]_vars

\* the step sends an endpoint request of the DiscoveryService: from a warm-up or from
\* MqttService.initialize
EndpointRequestSent ==
    \/ initializeCalls' > initializeCalls
    \/ authCalls.signIn.pc = "getUser" /\ authCalls'.signIn.pc = "discover"
    \/ authCalls.init # "discover" /\ authCalls'.init = "discover"

\* C26: every endpoint request of the DiscoveryService is made with credentials
\* derived from the session that is current when it is sent
C26_DiscoveryUsesCurrentCredentials ==
    [][ EndpointRequestSent => discoveryCredentials' = currentSession'.user ]_vars

\* C27: within one MqttService no subscribe call is issued before a connect attempt has
\* set the status to Connected. A step that issues a subscribe either sets the status
\* Connected itself (the 'connect' event, the resolved connect promise) or is the firing
\* of the 500 ms subscribe timer, and that timer is only ever armed by a step that sets
\* the status Connected (the watchdog)
SubscribeTimerArmed == \E c \in ConnIds : ~conns[c].subDelay /\ conns'[c].subDelay
SubscribeTimerFired == \E c \in ConnIds : conns[c].subDelay /\ ~conns'[c].subDelay
C27_SubscribeOnlyAfterConnected ==
    /\ [][SubscribeCalls' > SubscribeCalls
            => (connectionStatus' = CONNECTED \/ SubscribeTimerFired)]_vars
    /\ [][SubscribeTimerArmed => connectionStatus' = CONNECTED]_vars

\* C27 witness: a subscribe was issued through the watchdog's timer on an attempt whose
\* 'connect' event and connect promise are both still outstanding, and the status has
\* moved on from Connected since the watchdog set it
C27_Witness ==
    \E c \in ConnIds :
        /\ conns[c].subBy > 0 /\ ~conns[c].acked /\ conns[c].promise = "pending"
        /\ connectionStatus # CONNECTED

\* C28: MqttService starts in status Disconnected; initialize uses a provided endpoint
\* without calling discovery, calls endpoint discovery when none is provided, and fails
\* with the initialization error, the status still Disconnected and the endpoint as it
\* was, when discovery fails
InitializeCalled ==
    /\ lastInitialize' # lastInitialize
    /\ initializeCalls' >= initializeCalls
InitializationError == "MQTT Service initialization failed"
C28_InitializeResolvesEndpoint ==
    /\ connectionStatus = DISCONNECTED
    /\ [][InitializeCalled /\ lastInitialize'.provided # ""
            => /\ endpoint' = lastInitialize'.provided
               /\ lastInitialize'.outcome = "resolved"
               /\ ~lastInitialize'.requested
               /\ initializeCalls' = initializeCalls
               /\ discoveryCredentials' = discoveryCredentials]_vars
    /\ [][InitializeCalled /\ lastInitialize'.provided = ""
            => /\ endpoint' = endpoint
               /\ IF canInitializeClients
                  THEN /\ initializeCalls' = initializeCalls + 1
                       /\ lastInitialize'.requested
                       /\ lastInitialize'.outcome = "pending"
                  ELSE /\ lastInitialize'.outcome = "rejected"
                       /\ lastInitialize'.error = InitializationError
                       /\ connectionStatus' = DISCONNECTED]_vars
    /\ [][\A response \in EndpointResponses :
                initializeAnswered(response)
                    => IF endpointDiscovered(response)
                       THEN /\ endpoint' = response.address
                            /\ lastInitialize'.outcome = "resolved"
                       ELSE /\ endpoint' = endpoint
                            /\ lastInitialize'.outcome = "rejected"
                            /\ lastInitialize'.error = InitializationError
                            /\ connectionStatus' = DISCONNECTED]_vars

\* C28 witness: an initialize with a provided endpoint resolved to it, and a later
\* initialize without one sent the endpoint request and was rejected when the request
\* failed, the provided endpoint still in place and the status Disconnected
C28_Witness ==
    /\ lastInitialize.outcome = "rejected" /\ lastInitialize.requested
    /\ lastInitialize.error = InitializationError
    /\ endpoint = "custom.iot"
    /\ connectionStatus = DISCONNECTED

\* C29: after disconnect() completes the service holds no transport connection: the
\* connection reference was released, in every case including when unsubscribe throws
C29_DisconnectReleasesConnection ==
    [][DisconnectReturns => connection' = NoConnection]_vars

\* C30: the n-th consecutive reconnect attempt (n = 1, 2, 3) is scheduled with delay
\* 5000 * 2^(n-1) ms, that is 5 s, 10 s and 20 s; the status is Reconnecting while the
\* reconnect timer is pending; the attempt counter returns to 0 only in a step that
\* marks a connect successful (status Connected) or in a manual disconnect
C30_BackoffWhileReconnecting ==
    /\ [][ReconnectScheduled
            => /\ reconnectAttempts' \in 1..3
               /\ ReconnectDelay(reconnectAttempts')
                    = CASE reconnectAttempts' = 1 -> 5000
                        [] reconnectAttempts' = 2 -> 10000
                        [] reconnectAttempts' = 3 -> 20000]_vars
    /\ [](reconnectTimeout # NoTimer => connectionStatus = RECONNECTING)
    /\ [][reconnectAttempts > 0 /\ reconnectAttempts' = 0
            => \/ connectionStatus' = CONNECTED
               \/ manualDisconnect' /\ reconnectTimeout' = NoTimer]_vars

\* C31: the first unexpected disconnect after a connect waits the 2 s grace period: the
\* 'disconnect' event of a connection whose connect succeeded, with no manual
\* disconnect, arms the grace timer and schedules nothing; when the grace timer fires a
\* reconnect is scheduled only if no manual disconnect happened and the status is
\* still Disconnected; every later unexpected disconnect (the attempt counter is
\* positive and the connection's connect did not succeed) schedules the reconnect in
\* the same step
Disconnected(c) == ~conns[c].closed /\ conns'[c].closed
ConnectSucceeded(c) == conns[c].acked \/ conns[c].promise = "resolved"
GraceTimerFired(c) == conns[c].grace /\ ~conns'[c].grace
C31_FirstDisconnectWaitsGrace ==
    /\ [][\A c \in ConnIds :
            Disconnected(c) /\ ~manualDisconnect /\ ConnectSucceeded(c)
                => /\ conns'[c].grace
                   /\ ~ReconnectScheduled
                   /\ connectionStatus' = DISCONNECTED]_vars
    /\ [][\A c \in ConnIds :
            GraceTimerFired(c)
                => (ReconnectScheduled
                        => ~manualDisconnect /\ connectionStatus = DISCONNECTED)]_vars
    /\ [][\A c \in ConnIds :
            Disconnected(c) /\ ~manualDisconnect /\ ~ConnectSucceeded(c)
                /\ reconnectAttempts > 0
                => ReconnectScheduled]_vars

\* C32: a refresh scheduled for a session fires at its expiry minus 5 minutes, and no
\* timer is set when that instant is not in the future; whenever AuthService holds a
\* session whose refresh instant is in the future, a refresh timer for that session's
\* expiry is pending, also when a new sign-in replaces a session that had a timer
C32_RefreshTimerTracksSession ==
    (currentSession # NoSession
        /\ currentSession.expiresAt - now - TOKEN_REFRESH_THRESHOLD > 0)
        => refreshTimer = [state |-> "pending",
                           fireAt |-> currentSession.expiresAt - TOKEN_REFRESH_THRESHOLD]

\* C33: the connect guard flag isConnecting is true only while the status is
\* Connecting: in every reachable state with status Disconnected, Error or
\* Reconnecting the flag is false, so that a connect call made there starts an attempt
C33_ConnectingFlagFollowsStatus ==
    connectionStatus \in {DISCONNECTED, ERROR, RECONNECTING} => ~isConnecting

\* C34: after a manual disconnect() has returned, the status stays Disconnected until
\* the next explicit connect call, also when a connect call was still in flight when
\* disconnect was called
DisconnectHasReturned ==
    /\ manualDisconnect
    /\ discCalls = [unsub |-> 0, disc |-> 0]
C34_DisconnectedUntilNextConnect ==
    [][DisconnectHasReturned /\ connectionStatus = DISCONNECTED
            /\ connectCalls' = connectCalls
            => connectionStatus' = DISCONNECTED]_vars

\* C35: the watchdog and grace timers of one connect attempt act only on that attempt:
\* once a later attempt has created its connection, the watchdog of the earlier one
\* does not change the status, its 500 ms subscribe timer issues no subscribe, and its
\* grace timer schedules no reconnect
LaterAttempt(c) == \E d \in ConnIds : d > c
C35_TimersActOnTheirOwnAttempt ==
    /\ [][\A c \in ConnIds :
            LaterAttempt(c) /\ conns[c].watchdog /\ ~conns'[c].watchdog
                => connectionStatus' = connectionStatus]_vars
    /\ [][\A c \in ConnIds :
            LaterAttempt(c) /\ conns[c].subDelay /\ ~conns'[c].subDelay
                => SubscribeCalls' = SubscribeCalls]_vars
    /\ [][\A c \in ConnIds :
            LaterAttempt(c) /\ GraceTimerFired(c) => ~ReconnectScheduled]_vars

\* C36: at the moment a subscribe call is issued to the transport the status is
\* Connected, the subscribe issued 500 ms after the watchdog fired included
C36_SubscribeWhileConnected ==
    [][SubscribeCalls' > SubscribeCalls => connectionStatus' = CONNECTED]_vars

\* C37: the MQTT context's clearError removes the error (null, or the empty string the
\* views take for none) and leaves connectionStatus, connected, the messages list and
\* messageCount as they were
C37_ClearErrorKeepsTheRest ==
    [][clearError
            => /\ mqttState'.error \in {NoError, ""}
               /\ mqttState'.connectionStatus = mqttState.connectionStatus
               /\ mqttState'.connected = mqttState.connected
               /\ mqttState'.messages = mqttState.messages
               /\ mqttState'.messageCount = mqttState.messageCount]_vars

\* C40: whenever the auth context's state is Authenticated, AuthService holds an
\* unexpired session of the context's user, so that credentials can be derived; also
\* after a challenge, after a failed token refresh and after the session's expiry
C40_AuthenticatedHasLiveSession ==
    authCtx.authState = AUTHENTICATED
        => /\ currentSession # NoSession
           /\ currentSession.user = authCtx.user
           /\ isAuthenticated(currentSession, now)

\* the calls of the context have returned and nothing they started is still under way:
\* no suspended call, no pending timer, no unanswered transport request
ProviderSettled ==
    /\ providerCalls = [NoProviderCalls EXCEPT !.topic = providerCalls.topic]
    /\ initializeCalls = 0
    /\ \A t \in Topics : credsPending[t] = 0
    /\ discCalls = [unsub |-> 0, disc |-> 0]
    /\ subInFlight = 0
    /\ welcomePending = 0
    /\ reconnectTimeout = NoTimer
    /\ \A c \in ConnIds : /\ conns[c].promise # "pending"
                           /\ ~conns[c].watchdog
                           /\ ~conns[c].subDelay
                           /\ ~conns[c].grace

\* C38: once a connect or disconnect of the context that passed its topic and
\* authentication checks has completed, with the service events it caused, the
\* connection status of the context equals the status held by MqttService
C38_ContextStatusFollowsService ==
    (ProviderSettled /\ mqttState.error = NoError)
        => mqttState.connectionStatus = connectionStatus

\* C39: a message received from the transport while the context listens raises
\* messageCount by exactly 1, and by nothing once the context has stopped listening
C39_MessageAddedOnce ==
    [][delivered' = delivered + 1
        => mqttState'.messageCount = mqttState.messageCount
                + (IF Registered(messageCallbacks, HandleMessage) > 0 THEN 1 ELSE 0)]_vars

====
